---- MODULE Spec2Model ----
(***************************************************************************)
(* Fleet telemetry server: identity resolution, normalisation, the asset    *)
(* store (latestById), the socket.io fan-out and the dashboard client's     *)
(* socket handlers.                                                         *)
(*                                                                          *)
(* The repository holds two server files: src/server/src/index.js and an   *)
(* earlier variant, src/unnamed/part_000.  The variable `server` says       *)
(* which of the two is running; it is chosen at start-up and never changes. *)
(***************************************************************************)
EXTENDS Integers, Sequences, FiniteSets, TLC

VARIABLES
  server,          \* "index" (src/server/src/index.js) or "legacy" (src/unnamed/part_000)
  latestById,      \* the asset store: a Map in insertion order, here a sequence of records
  partitionLastId, \* partition -> id last seen on a location message (index.js only)
  now,             \* the processing-time clock, NOW()
  sockets,         \* per subscriber: connection state, events in flight, client rows
  lastOp,          \* the handler that ran last: its kind, outcome, the faults it merged,
                   \* the events it emitted and, for an HTTP read, the response body
  pass,            \* the handler in progress, when its statements are taken one by one
  handled          \* history variable: the message the consumer was given last, where
                   \* a specification records it

vars == <<server, latestById, partitionLastId, now, sockets, lastOp, pass, handled>>

----------------------------------------------------------------------------
(* JSON values, tagged so that values of different JavaScript types never   *)
(* meet in one comparison.                                                  *)

Undef == [t |-> "undef"]
JNull == [t |-> "null"]
JNum(n) == [t |-> "num", n |-> n]
JStr(s) == [t |-> "str", s |-> s]
JBool(b) == [t |-> "bool", b |-> b]
\* a number with a fraction, kept as its decimal text
JDec(d) == [t |-> "dec", d |-> d]
JArr(a) == [t |-> "arr", a |-> a]
\* an object is its list of <<key, value>> pairs, in key order
JObj(o) == [t |-> "obj", o |-> o]

Nullish(v) == v.t \in {"undef", "null"}

Truthy(v) ==
  CASE v.t \in {"undef", "null"} -> FALSE
    [] v.t = "num" -> v.n # 0
    [] v.t = "str" -> v.s # ""
    [] v.t = "bool" -> v.b
    [] OTHER -> TRUE

\* a || b
OrJ(a, b) == IF Truthy(a) THEN a ELSE b

\* a ?? b
Coalesce(a, b) == IF Nullish(a) THEN b ELSE a

IsArray(v) == v.t = "arr"

\* typeof v === "object" for a non-null v
IsObject(v) == v.t \in {"obj", "arr"}

\* Object.keys(v).map((k) => v[k]): the values of an object or an array, in key order
Values(v) ==
  CASE v.t = "obj" -> [i \in 1..Len(v.o) |-> v.o[i][2]]
    [] v.t = "arr" -> v.a
    [] OTHER -> <<>>

\* v?.[k]: the property k of v, undefined when v has none
Get(v, k) ==
  CASE v.t = "obj" ->
         IF \E i \in 1..Len(v.o) : v.o[i][1] = k
           THEN v.o[CHOOSE i \in 1..Len(v.o) : v.o[i][1] = k][2]
           ELSE Undef
    [] OTHER -> Undef

\* v[i] of an array, undefined past its end
At(v, i) == IF v.t = "arr" /\ i < Len(v.a) THEN v.a[i + 1] ELSE Undef

Get2(v, k1, k2) == Get(Get(v, k1), k2)
Get3(v, k1, k2, k3) == Get(Get(Get(v, k1), k2), k3)

----------------------------------------------------------------------------
(* The asset store.                                                         *)

HISTORY_CAP == 600
LEGACY_HISTORY_CAP == 200
STATE_LIMIT == 200

\* faults.counts: {} after upsertAssetBase of index.js ("empty"), no such key in
\* part_000 ("absent"), the four tallies after handleFaultMerge ("tally"); a counter
\* that was never written reads as undefined
NoCounts(state) ==
  [state |-> state, critical |-> Undef, warning |-> Undef, info |-> Undef,
   unknown |-> Undef]

\* prev.faults || { active: [], history: [], counts: {} }
NewFaults(srv) ==
  [active |-> <<>>, history |-> <<>>,
   counts |-> NoCounts(IF srv = "index" THEN "empty" ELSE "absent")]

\* {} : the record every field of which is undefined
EmptyRecord ==
  [id |-> Undef, vin |-> Undef, serial |-> Undef, time |-> Undef, lat |-> Undef,
   lon |-> Undef, heading |-> Undef, city |-> Undef, state |-> Undef,
   mph |-> Undef]

\* latestById.has(id)
Has(store, id) == \E i \in 1..Len(store) : store[i].id = id

\* latestById.get(id)
Lookup(store, id) == store[CHOOSE i \in 1..Len(store) : store[i].id = id]

\* a store of two entries at most: the oldest entry leaves to admit a new one
PutEvicting(store, id, rec) ==
  IF Has(store, id)
    THEN [i \in 1..Len(store) |-> IF store[i].id = id THEN rec ELSE store[i]]
    ELSE IF Len(store) >= 2 THEN Append(Tail(store), rec)
    ELSE Append(store, rec)

\* one fault snapshot held by every entry of the store
PutSharingFaults(store, id, rec) ==
  IF Has(store, id)
    THEN [i \in 1..Len(store) |->
            IF store[i].id = id THEN rec ELSE [store[i] EXCEPT !.faults = rec.faults]]
    ELSE Append([i \in 1..Len(store) |-> [store[i] EXCEPT !.faults = rec.faults]], rec)

\* latestById.set(id, rec): a known key keeps its place, a new one goes last
Put(store, id, rec) ==
  IF Has(store, id)
    THEN [i \in 1..Len(store) |-> IF store[i].id = id THEN rec ELSE store[i]]
    ELSE Append(store, rec)

\* const id = record.id || record.vin || record.serial
\* the vin taken before the id
UpsertIdVinFirst(record) == OrJ(OrJ(record.vin, record.id), record.serial)

UpsertId(record) == OrJ(OrJ(record.id, record.vin), record.serial)

\* || where the source has ??: a present but falsy value is taken for absent
upsertAssetBaseOr(srv, store, record, topic, t) ==
  LET id == UpsertId(record)
      known == Has(store, id)
      prev == IF known THEN Lookup(store, id) ELSE EmptyRecord
  IN  [id |-> id,
       vin |-> OrJ(record.vin, prev.vin),
       serial |-> OrJ(record.serial, prev.serial),
       time |-> OrJ(record.time, prev.time),
       lat |-> OrJ(record.lat, prev.lat),
       lon |-> OrJ(record.lon, prev.lon),
       heading |-> OrJ(record.heading, prev.heading),
       city |-> OrJ(record.city, prev.city),
       state |-> OrJ(record.state, prev.state),
       mph |-> OrJ(record.mph, prev.mph),
       faults |-> IF known THEN prev.faults ELSE NewFaults(srv),
       lastTopic |-> JStr(topic),
       lastUpdateTs |-> JNum(t),
       milOn |-> Undef]

\* a fault snapshot made anew by every upsert
upsertAssetBaseFresh(srv, store, record, topic, t) ==
  LET id == UpsertId(record)
      known == Has(store, id)
      prev == IF known THEN Lookup(store, id) ELSE EmptyRecord
  IN  [id |-> id,
       vin |-> Coalesce(record.vin, prev.vin),
       serial |-> Coalesce(record.serial, prev.serial),
       time |-> Coalesce(record.time, prev.time),
       lat |-> Coalesce(record.lat, prev.lat),
       lon |-> Coalesce(record.lon, prev.lon),
       heading |-> Coalesce(record.heading, prev.heading),
       city |-> Coalesce(record.city, prev.city),
       state |-> Coalesce(record.state, prev.state),
       mph |-> Coalesce(record.mph, prev.mph),
       faults |-> NewFaults(srv),
       lastTopic |-> JStr(topic),
       lastUpdateTs |-> JNum(t),
       milOn |-> Undef]

\* the record upsertAssetBase stores and returns (callers have checked the id)
upsertAssetBase(srv, store, record, topic, t) ==
  LET id == UpsertId(record)
      known == Has(store, id)
      prev == IF known THEN Lookup(store, id) ELSE EmptyRecord
  IN  [id |-> id,
       vin |-> Coalesce(record.vin, prev.vin),
       serial |-> Coalesce(record.serial, prev.serial),
       time |-> Coalesce(record.time, prev.time),
       lat |-> Coalesce(record.lat, prev.lat),
       lon |-> Coalesce(record.lon, prev.lon),
       heading |-> Coalesce(record.heading, prev.heading),
       city |-> Coalesce(record.city, prev.city),
       state |-> Coalesce(record.state, prev.state),
       mph |-> Coalesce(record.mph, prev.mph),
       faults |-> IF known THEN prev.faults ELSE NewFaults(srv),
       lastTopic |-> JStr(topic),
       lastUpdateTs |-> JNum(t),
       milOn |-> Undef]

Severities == {"critical", "warning", "info"}

\* the severity counters of handleFaultMerge
Tally(active) ==
  LET n(s) == Cardinality({i \in 1..Len(active) : active[i].severity = s})
  IN  [state |-> "tally",
       critical |-> JNum(n(JStr("critical"))),
       warning |-> JNum(n(JStr("warning"))),
       info |-> JNum(n(JStr("info"))),
       unknown |-> JNum(Cardinality({i \in 1..Len(active) :
                          active[i].severity \notin {JStr(s) : s \in Severities}}))]

\* the shift taken one entry early: >= for >
PushHistoryEarly(history, faultObj, cap) ==
  IF Len(history) + 1 >= cap THEN Tail(Append(history, faultObj))
  ELSE Append(history, faultObj)

\* history.push(faultObj); if (history.length > cap) history.shift()
PushHistory(history, faultObj, cap) ==
  LET h == Append(history, faultObj)
  IN  IF Len(h) > cap THEN Tail(h) ELSE h

\* a merge that forgets the findIndex: an active fault is always pushed
MergeActiveAlwaysPush(active, faultObj) ==
  IF Truthy(faultObj.active) THEN Append(active, faultObj) ELSE active

\* a fault whose code is active clears the entry
MergeActiveClearing(active, faultObj) ==
  IF \E i \in 1..Len(active) : active[i].code = faultObj.code
    THEN SelectSeq(active, LAMBDA f : f.code # faultObj.code)
    ELSE Append(active, faultObj)

\* the active list after handleFaultMerge: replace or append by code when the
\* fault is active, remove by code when it is not
MergeActive(active, faultObj) ==
  LET hit == {i \in 1..Len(active) : active[i].code = faultObj.code}
      idx == IF hit = {} THEN 0 ELSE CHOOSE i \in hit : \A j \in hit : i <= j
  IN  IF Truthy(faultObj.active)
        THEN IF idx = 0 THEN Append(active, faultObj)
             ELSE [active EXCEPT ![idx] = faultObj]
        ELSE IF idx # 0
               THEN SubSeq(active, 1, idx - 1) \o SubSeq(active, idx + 1, Len(active))
               ELSE active

\* asset.milOn = asset.faults.active.some((f) => f.meta?.milStatus === 1)
MilOn(active) ==
  \E i \in 1..Len(active) : Get(active[i].meta, "milStatus") = JNum(1)

handleFaultMerge(srv, asset, faultObj) ==
  LET history == PushHistory(asset.faults.history, faultObj,
                             IF srv = "index" THEN HISTORY_CAP ELSE LEGACY_HISTORY_CAP)
      active == MergeActive(asset.faults.active, faultObj)
  IN  [asset EXCEPT
         !.faults = [active |-> active, history |-> history, counts |-> Tally(active)],
         !.milOn = IF srv = "index" THEN JBool(MilOn(active)) ELSE asset.milOn]

\* for (const f of items) handleFaultMerge(asset, f)
RECURSIVE MergeAll(_, _, _)
MergeAll(srv, asset, items) ==
  IF items = <<>> THEN asset
  ELSE MergeAll(srv, handleFaultMerge(srv, asset, Head(items)), Tail(items))

----------------------------------------------------------------------------
(* JavaScript conversions used by the normalisers.                          *)

NaN == [t |-> "nan"]
\* a handler that raised a TypeError
Threw == [t |-> "throw"]

UpperChars == "ABCDEFGHIJKLMNOPQRSTUVWXYZ"
LowerChars == "abcdefghijklmnopqrstuvwxyz"
Digits == "0123456789"

LowerChar(c) ==
  IF \E i \in 1..26 : SubSeq(UpperChars, i, i) = c
    THEN LET i == CHOOSE j \in 1..26 : SubSeq(UpperChars, j, j) = c
         IN  SubSeq(LowerChars, i, i)
    ELSE c

\* s.toLowerCase()
RECURSIVE ToLowerCase(_)
ToLowerCase(s) ==
  IF Len(s) = 0 THEN ""
  ELSE LowerChar(SubSeq(s, 1, 1)) \o ToLowerCase(SubSeq(s, 2, Len(s)))

\* s.includes(sub)
Includes(s, sub) ==
  \E i \in 1..(Len(s) - Len(sub) + 1) : SubSeq(s, i, i + Len(sub) - 1) = sub

\* s.trim(), for the blanks the description separators introduce
RECURSIVE Trim(_)
Trim(s) ==
  IF Len(s) = 0 THEN s
  ELSE IF SubSeq(s, 1, 1) = " " THEN Trim(SubSeq(s, 2, Len(s)))
  ELSE IF SubSeq(s, Len(s), Len(s)) = " " THEN Trim(SubSeq(s, 1, Len(s) - 1))
  ELSE s

IsDigits(s) ==
  Len(s) > 0 /\ \A i \in 1..Len(s) : Includes(Digits, SubSeq(s, i, i))

RECURSIVE ParseDigits(_)
ParseDigits(s) ==
  IF Len(s) = 0 THEN 0
  ELSE LET c == SubSeq(s, Len(s), Len(s))
           d == (CHOOSE j \in 1..10 : SubSeq(Digits, j, j) = c) - 1
       IN  10 * ParseDigits(SubSeq(s, 1, Len(s) - 1)) + d

\* Number(v)
ToNumber(v) ==
  CASE v.t = "num" -> v
    [] v.t = "str" -> IF v.s = "" THEN JNum(0)
                      ELSE IF IsDigits(v.s) THEN JNum(ParseDigits(v.s)) ELSE NaN
    [] v.t = "bool" -> JNum(IF v.b THEN 1 ELSE 0)
    [] v.t = "null" -> JNum(0)
    [] OTHER -> NaN

\* `${v}` and String(v)
JsString(v) ==
  CASE v.t = "str" -> v.s
    [] v.t = "num" -> ToString(v.n)
    [] v.t = "bool" -> IF v.b THEN "true" ELSE "false"
    [] v.t = "null" -> "null"
    [] v.t = "undef" -> "undefined"
    [] OTHER -> "[object Object]"

----------------------------------------------------------------------------
(* Identity helpers.                                                        *)

NoIdentity == [id |-> Undef, vin |-> Undef, serial |-> Undef]

\* extractIdentity of index.js
extractIdentity(obj) ==
  IF ~Truthy(obj) \/ ~IsObject(obj) THEN NoIdentity
  ELSE [id |-> Coalesce(Coalesce(Get2(obj, "asset", "id"), Get2(obj, "vehicle", "id")),
                        JNull),
        vin |-> OrJ(Get3(obj, "asset", "externalIds", "samsara.vin"),
                    Get3(obj, "vehicle", "externalIds", "samsara.vin")),
        serial |-> OrJ(Get3(obj, "asset", "externalIds", "samsara.serial"),
                       Get3(obj, "vehicle", "externalIds", "samsara.serial"))]

resolveIdentityFromObj(obj) ==
  IF ~Truthy(obj) \/ ~IsObject(obj) THEN NoIdentity
  ELSE LET env == extractIdentity(obj)
       IN  [id |-> Coalesce(Coalesce(Coalesce(Coalesce(env.id, Get(obj, "id")),
                                              Get(obj, "vehicleId")),
                                     Get(obj, "assetId")), JNull),
            vin |-> Coalesce(Coalesce(Coalesce(Coalesce(Coalesce(env.vin, Get(obj, "vin")),
                                                        Get(obj, "VIN")),
                                               Get2(obj, "vehicle", "vin")),
                                      Get2(obj, "asset", "vin")), JNull),
            serial |-> Coalesce(Coalesce(Coalesce(Coalesce(env.serial, Get(obj, "serial")),
                                                  Get2(obj, "vehicle", "serial")),
                                         Get2(obj, "asset", "serial")), JNull)]

\* extractIdentity of part_000: pick(obj, "asset.id") ?? obj?.asset?.id, where
\* pick's `k in o` raises a TypeError on a truthy scalar
extractIdentityLegacy(obj) ==
  IF Truthy(obj) /\ ~IsObject(obj) THEN Threw
  ELSE LET assetId == Coalesce(Get(obj, "asset.id"), Get2(obj, "asset", "id"))
           vehId == Coalesce(Get(obj, "vehicle.id"), Get2(obj, "vehicle", "id"))
       IN  [id |-> Coalesce(assetId, vehId),
            vin |-> OrJ(Get3(obj, "asset", "externalIds", "samsara.vin"),
                        Get3(obj, "vehicle", "externalIds", "samsara.vin")),
            serial |-> OrJ(Get3(obj, "asset", "externalIds", "samsara.serial"),
                           Get3(obj, "vehicle", "externalIds", "samsara.serial"))]

----------------------------------------------------------------------------
(* Normalize: location / speed.                                             *)

\* n metres per second as miles per hour, n * 2.2369362920544: kept symbolic
Mps(n) == [t |-> "mps", n |-> n]

\* the mph of normalizeLocation: the metres-per-second field wins over the mph one
LocationMph(obj) ==
  LET fromMph == IF ~Nullish(Get2(obj, "ecuSpeedMph", "value"))
                   THEN ToNumber(Get2(obj, "ecuSpeedMph", "value")) ELSE Undef
      mps == Get2(obj, "speed", "ecuSpeedMetersPerSecond")
      mph == IF ~Nullish(mps)
               THEN (IF ToNumber(mps).t = "num" THEN Mps(ToNumber(mps).n) ELSE NaN)
               ELSE fromMph
  IN  IF mph.t \in {"num", "mps"} THEN mph ELSE Undef

\* the fields normalizeLocation reads besides the identity
LocationFields(obj, fallbackIso) ==
  LET loc == OrJ(Get(obj, "location"), JObj(<<>>))
      addr == OrJ(Get(loc, "address"), JObj(<<>>))
  IN  [time |-> OrJ(OrJ(OrJ(Get(obj, "happenedAtTime"), Get2(obj, "ecuSpeedMph", "time")),
                        Get(obj, "time")), fallbackIso),
       lat |-> Get(loc, "latitude"),
       lon |-> Get(loc, "longitude"),
       heading |-> Get(loc, "headingDegrees"),
       city |-> Get(addr, "city"),
       state |-> Get(addr, "state"),
       mph |-> LocationMph(obj)]

WithIdentity(ident, f) ==
  [id |-> ident.id, vin |-> ident.vin, serial |-> ident.serial, time |-> f.time,
   lat |-> f.lat, lon |-> f.lon, heading |-> f.heading, city |-> f.city,
   state |-> f.state, mph |-> f.mph]

normalizeLocation(obj, fallbackIso) ==
  WithIdentity(extractIdentity(obj), LocationFields(obj, fallbackIso))

normalizeLocationLegacy(obj, fallbackIso) ==
  IF extractIdentityLegacy(obj) = Threw THEN Threw
  ELSE WithIdentity(extractIdentityLegacy(obj), LocationFields(obj, fallbackIso))


----------------------------------------------------------------------------
(* Normalize: J1939 SPN/FMI faults (index.js).                              *)

MISFIRE_SPNS == {1322, 1327, 1328}

\* /misfire/i.test(s)
MatchesMisfire(s) == Includes(ToLowerCase(s), "misfire")

\* [spn part, fmi part].filter(Boolean).join(" ")
FaultCode(spnId, fmiId) ==
  LET spn == IF ~Nullish(spnId) THEN "SPN " \o JsString(spnId) ELSE ""
      fmi == IF ~Nullish(fmiId) THEN "FMI " \o JsString(fmiId) ELSE ""
  IN  IF spn # "" /\ fmi # "" THEN spn \o " " \o fmi ELSE spn \o fmi

FaultDescription(item) ==
  LET src == Get(item, "sourceAddressName")
      spnD == OrJ(Get(item, "spnDescription"), JStr(""))
      fmiD == Get(item, "fmiDescription")
  IN  Trim(JsString(spnD)
           \o (IF Truthy(fmiD) THEN " -- " \o JsString(fmiD) ELSE "")
           \o (IF Truthy(src) THEN " (" \o JsString(src) \o ")" ELSE ""))

FaultSeverity(item) ==
  LET spnD == OrJ(Get(item, "spnDescription"), JStr(""))
      spnNum == ToNumber(Get(item, "spnId"))
      misfire == MatchesMisfire(JsString(spnD))
                 \/ (spnNum.t = "num" /\ spnNum.n \in MISFIRE_SPNS)
      lamp == ToNumber(Get(item, "milStatus")) = JNum(1)
  IN  IF lamp /\ misfire THEN "critical" ELSE IF lamp THEN "warning" ELSE "info"

normalizeJ1939FaultItem(item, whenIso) ==
  LET code == FaultCode(Get(item, "spnId"), Get(item, "fmiId"))
      description == FaultDescription(item)
  IN  [id |-> JStr((IF code # "" THEN code ELSE "UNKNOWN") \o "@" \o JsString(whenIso)),
       code |-> JStr(IF code # "" THEN code ELSE "UNKNOWN"),
       description |-> JStr(IF description # "" THEN description ELSE "Diagnostic fault"),
       severity |-> JStr(FaultSeverity(item)),
       active |-> JBool(TRUE),
       time |-> whenIso,
       vin |-> Undef, serial |-> Undef, lastSeen |-> Undef,
       meta |-> JObj(<< <<"spn", Coalesce(Get(item, "spnId"), JNull)>>,
                        <<"fmi", Coalesce(Get(item, "fmiId"), JNull)>>,
                        <<"spnDescription", Get(item, "spnDescription")>>,
                        <<"fmiDescription", Get(item, "fmiDescription")>>,
                        <<"milStatus", Get(item, "milStatus")>>,
                        <<"occurrenceCount", Get(item, "occurrenceCount")>>,
                        <<"sourceAddressName", Get(item, "sourceAddressName")>>,
                        <<"txId", Get(item, "txId")>> >>)]

\* root is an array whose first element carries spnId or fmiId; reading
\* root[0].spnId raises a TypeError when root[0] is null (typeof null is "object")
SpnArrayTest(root) ==
  IF ~IsArray(root) \/ Len(root.a) = 0 THEN JBool(FALSE)
  ELSE IF At(root, 0).t = "null" THEN Threw
  ELSE JBool(IsObject(At(root, 0))
             /\ (~Nullish(Get(At(root, 0), "spnId")) \/ ~Nullish(Get(At(root, 0), "fmiId"))))

RECURSIVE deepFindSpnArray(_, _)
RECURSIVE DeepFindIn(_, _)

\* the for loop of deepFindSpnArray over the values vs, searched at depth d
DeepFindIn(vs, d) ==
  IF vs = <<>> THEN JNull
  ELSE LET v == Head(vs)
       IN  IF ~Truthy(v) \/ ~IsObject(v) THEN DeepFindIn(Tail(vs), d)
           ELSE LET arr == deepFindSpnArray(v, d)
                IN  IF arr = Threw \/ Truthy(arr) THEN arr ELSE DeepFindIn(Tail(vs), d)

deepFindSpnArray(root, maxDepth) ==
  IF ~Truthy(root) \/ ~IsObject(root) \/ maxDepth < 0 THEN JNull
  ELSE IF SpnArrayTest(root) = Threw THEN Threw
  ELSE IF SpnArrayTest(root) = JBool(TRUE) THEN root
  ELSE DeepFindIn(Values(root), maxDepth - 1)

MAX_DEPTH == 5

\* items tried before faults
FaultListItemsFirst(body) ==
  IF IsArray(body) THEN body
  ELSE IF IsArray(Get(body, "items")) THEN Get(body, "items")
  ELSE IF IsArray(Get(body, "faults")) THEN Get(body, "faults")
  ELSE IF IsArray(Get(body, "j1939")) THEN Get(body, "j1939")
  ELSE IF Truthy(body) /\ (~Nullish(Get(body, "spnId")) \/ ~Nullish(Get(body, "fmiId")))
    THEN JArr(<<body>>)
  ELSE LET found == deepFindSpnArray(body, MAX_DEPTH)
       IN  IF found = Threw THEN Threw
           ELSE IF Truthy(found) THEN found ELSE JArr(<<>>)

\* the raw items normalizeFaultPayload picks, by the first shape that matches
FaultList(body) ==
  IF IsArray(body) THEN body
  ELSE IF IsArray(Get(body, "faults")) THEN Get(body, "faults")
  ELSE IF IsArray(Get(body, "items")) THEN Get(body, "items")
  ELSE IF IsArray(Get(body, "j1939")) THEN Get(body, "j1939")
  ELSE IF Truthy(body) /\ (~Nullish(Get(body, "spnId")) \/ ~Nullish(Get(body, "fmiId")))
    THEN JArr(<<body>>)
  ELSE LET found == deepFindSpnArray(body, MAX_DEPTH)
       IN  IF found = Threw THEN Threw
           ELSE IF Truthy(found) THEN found ELSE JArr(<<>>)

\* list.map((it) => normalizeJ1939FaultItem(it, whenIso)).filter(Boolean)
\* (the faults come back as an array value, or Threw)
normalizeFaultPayload(body, whenIso) ==
  IF FaultList(body) = Threw THEN Threw
  ELSE JArr([i \in 1..Len(FaultList(body).a) |->
               normalizeJ1939FaultItem(FaultList(body).a[i], whenIso)])

----------------------------------------------------------------------------
(* normalizeFault of part_000.                                              *)

normalizeFault(obj, fallbackIso) ==
  IF extractIdentityLegacy(obj) = Threw THEN Threw
  ELSE
  LET ident == extractIdentityLegacy(obj)
      f == OrJ(OrJ(OrJ(OrJ(Get(obj, "fault"), Get(obj, "dtc")), Get(obj, "code")),
                   Get(obj, "event")), JObj(<<>>))
      code == Coalesce(Coalesce(Coalesce(Get(f, "code"), Get(obj, "code")),
                                Get(obj, "faultCode")), JStr("UNKNOWN"))
      description == Coalesce(Coalesce(Coalesce(Get(f, "description"),
                                                Get(obj, "description")),
                                       Get(obj, "message")), JStr("No description"))
      severity == ToLowerCase(JsString(OrJ(OrJ(Get(f, "severity"), Get(obj, "severity")),
                                           JStr("unknown"))))
      active == IF Get(f, "active").t = "bool" THEN Get(f, "active")
                ELSE IF Get(obj, "active").t = "bool" THEN Get(obj, "active")
                ELSE JBool(TRUE)
      time == OrJ(OrJ(Get(obj, "time"), Get(obj, "happenedAtTime")), fallbackIso)
  IN  [id |-> ident.id, vin |-> ident.vin, serial |-> ident.serial,
       fault |-> [id |-> JStr(JsString(code) \o ":" \o JsString(time)),
                  code |-> JStr(JsString(code)),
                  description |-> JStr(JsString(description)),
                  severity |-> JStr(severity),
                  active |-> active,
                  time |-> time,
                  vin |-> Undef, serial |-> Undef, lastSeen |-> Undef,
                  meta |-> Undef]]


----------------------------------------------------------------------------
(* Events and the socket.io fan-out.                                        *)

Event(type, payload) == [type |-> type, payload |-> payload]

\* { ...f, id, vin, serial }: the fault flattened with the asset's identity
FaultEvent(f, id, vin, serial) ==
  Event("fault",
        [id |-> id, code |-> f.code, description |-> f.description,
         severity |-> f.severity, active |-> f.active, time |-> f.time,
         meta |-> f.meta, vin |-> vin, serial |-> serial, lastSeen |-> Undef])

\* for (const f of items) io.emit("fault", { ...f, id, vin, serial })
FaultEvents(items, id, vin, serial) ==
  [i \in 1..Len(items) |-> FaultEvent(items[i], id, vin, serial)]

\* codes.map((f) => ({ spnId: f.meta?.spn ?? null, ... }))
RawForUi(codes) ==
  [i \in 1..Len(codes) |->
     JObj(<< <<"spnId", Coalesce(Get(codes[i].meta, "spn"), JNull)>>,
             <<"fmiId", Coalesce(Get(codes[i].meta, "fmi"), JNull)>>,
             <<"spnDescription", Get(codes[i].meta, "spnDescription")>>,
             <<"fmiDescription", Get(codes[i].meta, "fmiDescription")>>,
             <<"milStatus", Get(codes[i].meta, "milStatus")>>,
             <<"occurrenceCount", Get(codes[i].meta, "occurrenceCount")>>,
             <<"sourceAddressName", Get(codes[i].meta, "sourceAddressName")>>,
             <<"txId", Get(codes[i].meta, "txId")>> >>)]

Sockets == {"s1"}

\* an emit that overtakes what is still in flight to the socket
BroadcastAhead(socks, evs) ==
  [s \in Sockets |->
     IF socks[s].status = "connected"
       THEN [socks[s] EXCEPT !.inbox = evs \o @,
                             !.sent = @ \o [i \in 1..Len(evs) |-> evs[i].type]]
       ELSE socks[s]]

\* io.emit(...) for each event of evs in turn: every connected socket gets them all
Broadcast(socks, evs) ==
  [s \in Sockets |->
     IF socks[s].status = "connected"
       THEN [socks[s] EXCEPT !.inbox = @ \o evs,
                             !.sent = @ \o [i \in 1..Len(evs) |-> evs[i].type]]
       ELSE socks[s]]

\* the stamp taken from the time of the event
StampEventTime(asset, t) == [asset EXCEPT !.lastUpdateTs = asset.time]

\* { ...asset, lastUpdateTs: NOW() }
Stamp(asset, t) == [asset EXCEPT !.lastUpdateTs = JNum(t)]

NoBody == [size |-> 0, items |-> <<>>]

Op(kind, outcome, id, merged, events) ==
  [kind |-> kind, outcome |-> outcome, id |-> id, merged |-> merged, events |-> events,
   body |-> NoBody]

\* res.json(body) of a read
Read(kind, body) ==
  [kind |-> kind, outcome |-> "read", id |-> Undef, merged |-> <<>>, events |-> <<>>,
   body |-> body]

----------------------------------------------------------------------------
(* The Kafka consumer's eachMessage.                                        *)

\* headers[n] || headers[n.toLowerCase()], for each name in turn
RECURSIVE pickHeader(_, _)
pickHeader(headers, names) ==
  IF ~Truthy(headers) \/ names = <<>> THEN Undef
  ELSE LET v == OrJ(Get(headers, Head(names)), Get(headers, ToLowerCase(Head(names))))
       IN  IF Truthy(v) THEN JStr(JsString(v)) ELSE pickHeader(headers, Tail(names))

\* a raw value that is empty or not JSON
Invalid == [t |-> "invalid"]

\* safeJson: null when JSON.parse raises
safeJson(value) == IF value = Invalid THEN JNull ELSE value

\* message.timestamp as an ISO string, else the clock's
MessageTs(m, t) == IF Truthy(m.timestamp) THEN m.timestamp ELSE JNum(t)

KeyStr(m) == IF Truthy(m.key) THEN JStr(JsString(m.key)) ELSE JNull

\* topic.toLowerCase().includes("fault") in index.js, topic.includes("fault") in part_000
IsFaultTopic(srv, topic) ==
  IF srv = "index" THEN Includes(ToLowerCase(topic), "fault") ELSE Includes(topic, "fault")

HdrVin(m) == pickHeader(Coalesce(m.headers, JObj(<<>>)), <<"vin", "VIN">>)
HdrId(m) == pickHeader(Coalesce(m.headers, JObj(<<>>)), <<"id", "vehicleId", "assetId">>)

\* keyStr || hdrId || hdrVin || partitionLastId.get(partition) || null
TransportId(m, lastIds) ==
  OrJ(OrJ(OrJ(OrJ(KeyStr(m), HdrId(m)), HdrVin(m)), lastIds[m.partition]), JNull)

\* if (!id) id = ...
ResolvedId(ident, m, lastIds) ==
  IF ~Truthy(ident.id) THEN TransportId(m, lastIds) ELSE ident.id

\* the vin of a header only, without the id to fall back on
ResolvedVinHeaderOnly(ident, m, id) ==
  IF ~Truthy(ident.vin) THEN OrJ(HdrVin(m), JNull) ELSE ident.vin

\* if (!vin) vin = hdrVin || id || null
ResolvedVin(ident, m, id) ==
  IF ~Truthy(ident.vin) THEN OrJ(OrJ(HdrVin(m), id), JNull) ELSE ident.vin

\* the fallback taken whenever the store is not empty
SingletonFallbackAny(id, vin, serial, store) ==
  IF ~Truthy(id) /\ Len(store) >= 1
    THEN [id |-> store[1].id, vin |-> OrJ(OrJ(vin, store[1].vin), store[1].id),
          serial |-> serial]
    ELSE [id |-> id, vin |-> vin, serial |-> serial]

\* if (!id) { if (latestById.size === 1) { id = the sole key; vin = vin || its vin || id } }
SingletonFallback(id, vin, serial, store) ==
  IF ~Truthy(id) /\ Len(store) = 1
    THEN [id |-> store[1].id, vin |-> OrJ(OrJ(vin, store[1].vin), store[1].id),
          serial |-> serial]
    ELSE [id |-> id, vin |-> vin, serial |-> serial]

IdentityOf(ident, m, store, lastIds) ==
  SingletonFallback(ResolvedId(ident, m, lastIds),
                    ResolvedVin(ident, m, ResolvedId(ident, m, lastIds)),
                    ident.serial, store)

\* the id, vin and serial the fault path of index.js settles on (id is falsy when
\* none resolves)
FaultIdentity(m, obj, store, lastIds) ==
  IdentityOf(resolveIdentityFromObj(obj), m, store, lastIds)

\* a position of zero written with the identity
IdentityRecordPlaced(ident) ==
  [EmptyRecord EXCEPT !.id = ident.id, !.vin = ident.vin, !.serial = ident.serial,
                      !.lat = JNum(0), !.lon = JNum(0)]

IdentityRecord(ident) ==
  [EmptyRecord EXCEPT !.id = ident.id, !.vin = ident.vin, !.serial = ident.serial]

Dropped(kind) ==
  /\ lastOp' = Op(kind, "dropped", Undef, <<>>, <<>>)
  /\ UNCHANGED <<latestById, partitionLastId, sockets>>

Raised(kind) ==
  /\ lastOp' = Op(kind, "threw", Undef, <<>>, <<>>)
  /\ UNCHANGED <<latestById, partitionLastId, sockets>>

\* the store entry is replaced and the events go out, in this order
Commit(kind, id, rec, merged, events) ==
  /\ latestById' = Put(latestById, id, rec)
  /\ sockets' = Broadcast(sockets, events)
  /\ lastOp' = Op(kind, "accepted", id, merged, events)

\* the update emitted with the record as upsertAssetBase returned it, before the merges
FaultPathEventsStale(codes, base, merged) ==
  FaultEvents(codes, base.id, base.vin, base.serial)
  \o <<Event("faultcodes", [id |-> base.id, vin |-> base.vin, codes |-> RawForUi(codes)]),
       Event("update", base)>>

\* the events of an accepted fault message of index.js: one fault event per code,
\* then faultcodes, then update
FaultPathEvents(codes, base, merged) ==
  FaultEvents(codes, base.id, base.vin, base.serial)
  \o <<Event("faultcodes", [id |-> base.id, vin |-> base.vin, codes |-> RawForUi(codes)]),
       Event("update", merged)>>

FaultPathCommit(codes, base, merged) ==
  /\ Commit("fault", base.id, merged, codes, FaultPathEvents(codes, base, merged))
  /\ UNCHANGED partitionLastId

FaultPathMerge(codes, base, t) ==
  FaultPathCommit(codes, base, Stamp(MergeAll("index", base, codes), t))

\* a drop on a missing id only
FaultPathDecideIdOnly(m, t, normalized, ident) ==
  IF normalized = Threw THEN Raised("fault")
  ELSE IF ~Truthy(ident.id) THEN Dropped("fault")
  ELSE FaultPathMerge(normalized.a,
         upsertAssetBase("index", latestById, IdentityRecord(ident), m.topic, t), t)

FaultPathDecide(m, t, normalized, ident) ==
  IF normalized = Threw THEN Raised("fault")
  ELSE IF ~Truthy(ident.id) \/ Len(normalized.a) = 0 THEN Dropped("fault")
  ELSE FaultPathMerge(normalized.a,
         upsertAssetBase("index", latestById, IdentityRecord(ident), m.topic, t), t)

\* the fault path of index.js
FaultPath(m, obj, t) ==
  FaultPathDecide(m, t, normalizeFaultPayload(obj, MessageTs(m, t)),
                  FaultIdentity(m, obj, latestById, partitionLastId))

\* a location path that leaves the partition cache alone
LocationCommitUncached(m, asset) ==
  /\ Commit("location", asset.id, asset, <<>>, <<Event("update", asset)>>)
  /\ UNCHANGED partitionLastId

\* the vin of the asset cached in place of its id
LocationCommitVin(m, asset) ==
  /\ Commit("location", asset.id, asset, <<>>, <<Event("update", asset)>>)
  /\ partitionLastId' = [partitionLastId EXCEPT ![m.partition] = asset.vin]

LocationCommit(m, asset) ==
  /\ Commit("location", asset.id, asset, <<>>, <<Event("update", asset)>>)
  /\ partitionLastId' = [partitionLastId EXCEPT ![m.partition] = asset.id]

\* the partition cache written before the id is tested
LocationDecideCacheFirst(m, t, rec) ==
  IF ~Truthy(rec.id)
    THEN /\ lastOp' = Op("location", "dropped", Undef, <<>>, <<>>)
         /\ partitionLastId' = [partitionLastId EXCEPT ![m.partition] = rec.id]
         /\ UNCHANGED <<latestById, sockets>>
    ELSE LocationCommit(m, Stamp(upsertAssetBase("index", latestById, rec, m.topic, t), t))

\* a location path that falls back to the message key
LocationDecideKeyed(m, t, rec) ==
  IF ~Truthy(OrJ(rec.id, KeyStr(m))) THEN Dropped("location")
  ELSE LocationCommit(m, Stamp(upsertAssetBase("index", latestById,
                                               [rec EXCEPT !.id = OrJ(rec.id, KeyStr(m))],
                                               m.topic, t), t))

LocationDecide(m, t, rec) ==
  IF ~Truthy(rec.id) THEN Dropped("location")
  ELSE LocationCommit(m, Stamp(upsertAssetBase("index", latestById, rec, m.topic, t), t))

\* the location path of index.js
LocationPath(m, obj, t) == LocationDecide(m, t, normalizeLocation(obj, MessageTs(m, t)))

\* part_000 emits update before fault
LegacyFaultCommit(f, asset, merged) ==
  /\ Commit("fault", asset.id, merged, <<f.fault>>,
            <<Event("update", merged),
              FaultEvent(f.fault, asset.id, asset.vin, asset.serial)>>)
  /\ UNCHANGED partitionLastId

LegacyFaultMerge(f, asset, t) ==
  LegacyFaultCommit(f, asset, Stamp(handleFaultMerge("legacy", asset, f.fault), t))

LegacyFaultDecide(m, t, f) ==
  IF f = Threw THEN Raised("fault")
  ELSE IF ~Truthy(f.id) THEN Dropped("fault")
  ELSE LegacyFaultMerge(f,
         upsertAssetBase("legacy", latestById, IdentityRecord(f), m.topic, t), t)

\* the faults pathway of part_000
FaultPathLegacy(m, obj, t) == LegacyFaultDecide(m, t, normalizeFault(obj, MessageTs(m, t)))

LegacyLocationCommit(asset) ==
  /\ Commit("location", asset.id, asset, <<>>, <<Event("update", asset)>>)
  /\ UNCHANGED partitionLastId

LegacyLocationDecide(m, t, rec) ==
  IF rec = Threw THEN Raised("location")
  ELSE IF ~Truthy(rec.id) THEN Dropped("location")
  ELSE LegacyLocationCommit(
         Stamp(upsertAssetBase("legacy", latestById, rec, m.topic, t), t))

\* the location/speed pathway of part_000
LocationPathLegacy(m, obj, t) ==
  LegacyLocationDecide(m, t, normalizeLocationLegacy(obj, MessageTs(m, t)))

MaxNow == 3

\* const obj = safeJson(...) ?? {} in index.js, safeJson(rawStr) || {} in part_000
Decoded(srv, m) ==
  IF srv = "index" THEN Coalesce(safeJson(m.value), JObj(<<>>))
  ELSE OrJ(safeJson(m.value), JObj(<<>>))

Route(m, t) ==
  IF server = "index"
    THEN IF IsFaultTopic("index", m.topic) THEN FaultPath(m, Decoded("index", m), t)
         ELSE LocationPath(m, Decoded("index", m), t)
    ELSE IF IsFaultTopic("legacy", m.topic) THEN FaultPathLegacy(m, Decoded("legacy", m), t)
         ELSE LocationPathLegacy(m, Decoded("legacy", m), t)

\* eachMessage({ topic, partition, message }) of the running server
EachMessage(m) ==
  /\ now < MaxNow
  /\ now' = now + 1
  /\ Route(m, now + 1)
  /\ UNCHANGED <<server, pass>>

----------------------------------------------------------------------------
(* Debug injectors.                                                         *)

DEFAULT_ID == JStr("1FUJHHDR9MLMJ5268")

\* const base = latestById.get(id) || { id, vin, time: now }
DebugBase(store, id, vin, t) ==
  IF Has(store, id) THEN Lookup(store, id)
  ELSE [EmptyRecord EXCEPT !.id = id, !.vin = vin, !.time = JNum(t)]

Accept(kind, id, rec, merged, events) ==
  /\ Commit(kind, id, rec, merged, events)
  /\ UNCHANGED partitionLastId

\* const id = req.body?.id || `debug-${Date.now()}`
PushId(body, t) == OrJ(Get(body, "id"), JStr("debug-" \o ToString(t)))

Mock(id, rnd, t) ==
  [id |-> id, vin |-> JStr("3AKJHHDR0LSLL1245"), serial |-> JStr("G5W8BWXN9J"),
   mph |-> JNum(rnd), city |-> JStr("Testville"), state |-> JStr("TV"),
   lat |-> JDec("37.7749"), lon |-> JDec("-122.4194"), heading |-> Undef,
   time |-> JNum(t)]

PushCommit(asset) == Accept("debug/push", asset.id, asset, <<>>, <<Event("update", asset)>>)

\* POST /debug/push (both servers); rnd is Math.round(Math.random() * 65)
DebugPush(body, rnd) ==
  /\ now < MaxNow
  /\ now' = now + 1
  /\ PushCommit(Stamp(upsertAssetBase(server, latestById,
                                      Mock(PushId(body, now + 1), rnd, now + 1),
                                      "debug", now + 1), now + 1))
  /\ UNCHANGED <<server, pass>>

\* const id = req.body?.id || req.body?.vin || "1FUJHHDR9MLMJ5268"
DebugId(body) == OrJ(OrJ(Get(body, "id"), Get(body, "vin")), DEFAULT_ID)

\* const vin = req.body?.vin || id
DebugVin(body) == OrJ(Get(body, "vin"), DebugId(body))

DebugPayload(body, t) ==
  [id |-> DebugId(body), vin |-> DebugVin(body),
   code |-> OrJ(Get(body, "code"), JStr("SPN 1327 FMI 11")),
   description |-> OrJ(Get(body, "description"),
                       JStr("Engine Cylinder 5 Misfire Rate (Engine #1)")),
   severity |-> OrJ(Get(body, "severity"), JStr("critical")),
   active |-> JBool(TRUE), time |-> JNum(t), meta |-> Undef,
   serial |-> Undef, lastSeen |-> Undef]

\* upsertAssetBase(base, "debug")
DebugUpsert(body, t) ==
  upsertAssetBase("index", latestById,
                  DebugBase(latestById, DebugId(body), DebugVin(body), t), "debug", t)

DebugFaultCommit(payload, merged) ==
  Accept("debug/fault", payload.id, merged, <<payload>>,
         <<FaultEvent(payload, payload.id, payload.vin, Undef), Event("update", merged)>>)

DebugFaultMerge(payload, asset, t) ==
  DebugFaultCommit(payload, Stamp(handleFaultMerge("index", asset, payload), t))

\* POST /debug/fault (index.js)
DebugFault(body) ==
  /\ server = "index"
  /\ now < MaxNow
  /\ now' = now + 1
  /\ DebugFaultMerge(DebugPayload(body, now + 1), DebugUpsert(body, now + 1), now + 1)
  /\ UNCHANGED <<server, pass>>

DEFAULT_CODES ==
  JArr(<<JObj(<< <<"fmiDescription", JStr("Other Failure Mode")>>,
                 <<"fmiId", JNum(11)>>, <<"milStatus", JNum(1)>>,
                 <<"occurrenceCount", JNum(1)>>,
                 <<"sourceAddressName", JStr("Engine #1")>>,
                 <<"spnDescription", JStr("Engine Cylinder 5 Misfire Rate")>>,
                 <<"spnId", JNum(1327)>>, <<"txId", JNum(0)>> >>)>>)

\* Array.isArray(req.body?.codes) ? req.body.codes : [the default item]
DebugCodes(body) ==
  IF IsArray(Get(body, "codes")) THEN Get(body, "codes") ELSE DEFAULT_CODES

\* faultcodes first, then one fault event per item, then update
DebugCodesCommit(id, vin, codes, items, merged) ==
  Accept("debug/faultcodes", id, merged, items,
         <<Event("faultcodes", [id |-> id, vin |-> vin, codes |-> codes.a])>>
         \o FaultEvents(items, id, vin, Undef)
         \o <<Event("update", merged)>>)

DebugCodesMerge(id, vin, codes, items, asset, t) ==
  DebugCodesCommit(id, vin, codes, items, Stamp(MergeAll("index", asset, items), t))

\* POST /debug/faultcodes (index.js)
DebugFaultCodes(body) ==
  /\ server = "index"
  /\ now < MaxNow
  /\ now' = now + 1
  /\ DebugCodesMerge(DebugId(body), DebugVin(body), DebugCodes(body),
                     normalizeFaultPayload(DebugCodes(body), JNum(now + 1)).a,
                     DebugUpsert(body, now + 1), now + 1)
  /\ UNCHANGED <<server, pass>>

----------------------------------------------------------------------------
(* HTTP reads.                                                              *)

Min(a, b) == IF a < b THEN a ELSE b

\* GET /state: { size, items: Array.from(latestById.values()).slice(0, 200) }
StateBody(store) ==
  [size |-> Len(store), items |-> SubSeq(store, 1, Min(Len(store), STATE_LIMIT))]

\* { id: a.id, vin: a.vin, serial: a.serial, ...f, city, state, lat, lon }: the
\* fault's own id and vin (when it has one) overwrite the asset's
FlatFault(a, f) ==
  [id |-> f.id, vin |-> IF f.vin # Undef THEN f.vin ELSE a.vin, serial |-> a.serial,
   code |-> f.code, description |-> f.description, severity |-> f.severity,
   active |-> f.active, time |-> f.time, meta |-> f.meta,
   city |-> a.city, state |-> a.state, lat |-> a.lat, lon |-> a.lon]

\* for (const a of latestById.values()) for (const f of a.faults?.active || []):
\* the assets in store order, each with its active faults in order
RECURSIVE FlattenFaults(_)
FlattenFaults(store) ==
  IF store = <<>> THEN <<>>
  ELSE IF Len(store) = 1
    THEN [i \in 1..Len(store[1].faults.active) |->
            FlatFault(store[1], store[1].faults.active[i])]
  ELSE FlattenFaults(SubSeq(store, 1, Len(store) \div 2))
       \o FlattenFaults(SubSeq(store, Len(store) \div 2 + 1, Len(store)))

\* GET /faults: { count, items }
FaultsBody(store) ==
  [size |-> Len(FlattenFaults(store)), items |-> FlattenFaults(store)]

\* a handler that yields between its statements: a request is served at any point
Anytime == TRUE

\* no handler of index.js awaits between its first and its last statement, and
\* Node runs one callback at a time: a request is served only between handlers
Settled == pass.pc = "idle"

GetState ==
  /\ Settled
  /\ now < MaxNow
  /\ now' = now + 1
  /\ lastOp' = Read("state", StateBody(latestById))
  /\ UNCHANGED <<server, latestById, partitionLastId, sockets, pass, handled>>

GetFaults ==
  /\ Settled
  /\ now < MaxNow
  /\ now' = now + 1
  /\ lastOp' = Read("faults", FaultsBody(latestById))
  /\ UNCHANGED <<server, latestById, partitionLastId, sockets, pass, handled>>


----------------------------------------------------------------------------
(* The handlers of index.js statement by statement: the upsert, each fault  *)
(* merge, and the closing latestById.set with its emits are steps of their  *)
(* own, so that the store is visible between them.                          *)

\* no pass in progress; committed is the store as the last finished handler left it
Idle(committed) ==
  [pc |-> "idle", kind |-> "none", id |-> Undef, vin |-> Undef, serial |-> Undef,
   todo |-> <<>>, codes |-> <<>>, raw |-> <<>>, partition |-> 0, t |-> 0,
   committed |-> committed]

Running(kind, ident, codes, raw, partition, t) ==
  [pc |-> "merging", kind |-> kind, id |-> ident.id, vin |-> ident.vin,
   serial |-> ident.serial, todo |-> codes, codes |-> codes, raw |-> raw,
   partition |-> partition, t |-> t, committed |-> pass.committed]

\* upsertAssetBase has run: latestById.set(id, merged), the merges are still to come
Begin(kind, base, ident, codes, raw, partition, t) ==
  /\ latestById' = Put(latestById, base.id, base)
  /\ pass' = Running(kind, ident, codes, raw, partition, t)
  /\ lastOp' = Op(kind, "running", base.id, <<>>, <<>>)
  /\ UNCHANGED <<partitionLastId, sockets>>

Skip(kind, outcome) ==
  /\ lastOp' = Op(kind, outcome, Undef, <<>>, <<>>)
  /\ UNCHANGED <<latestById, partitionLastId, sockets, pass>>

FaultBegins(m, t, normalized, ident) ==
  IF normalized = Threw THEN Skip("fault", "threw")
  ELSE IF ~Truthy(ident.id) \/ Len(normalized.a) = 0 THEN Skip("fault", "dropped")
  ELSE Begin("fault",
             upsertAssetBase("index", latestById, IdentityRecord(ident), m.topic, t),
             upsertAssetBase("index", latestById, IdentityRecord(ident), m.topic, t),
             normalized.a, <<>>, m.partition, t)

LocationBegins(m, t, rec) ==
  IF ~Truthy(rec.id) THEN Skip("location", "dropped")
  ELSE Begin("location", upsertAssetBase("index", latestById, rec, m.topic, t),
             upsertAssetBase("index", latestById, rec, m.topic, t),
             <<>>, <<>>, m.partition, t)

\* eachMessage up to and including its upsertAssetBase
MessageBegins(m) ==
  /\ server = "index"
  /\ Settled
  /\ now < MaxNow
  /\ now' = now + 1
  /\ IF IsFaultTopic("index", m.topic)
       THEN FaultBegins(m, now + 1,
                        normalizeFaultPayload(Decoded("index", m), MessageTs(m, now + 1)),
                        FaultIdentity(m, Decoded("index", m), latestById, partitionLastId))
       ELSE LocationBegins(m, now + 1,
                           normalizeLocation(Decoded("index", m), MessageTs(m, now + 1)))
  /\ UNCHANGED <<server>>

\* POST /debug/faultcodes up to and including its upsertAssetBase
CodesBegin(body) ==
  /\ server = "index"
  /\ Settled
  /\ now < MaxNow
  /\ now' = now + 1
  /\ Begin("debug/faultcodes", DebugUpsert(body, now + 1),
           [id |-> DebugId(body), vin |-> DebugVin(body), serial |-> Undef],
           normalizeFaultPayload(DebugCodes(body), JNum(now + 1)).a,
           DebugCodes(body).a, 0, now + 1)
  /\ UNCHANGED <<server>>

\* one turn of for (const f of codes): handleFaultMerge, and on the Kafka path the
\* fault event
PassMerges ==
  /\ pass.pc = "merging"
  /\ pass.todo # <<>>
  /\ latestById' = Put(latestById, pass.id,
                       handleFaultMerge("index", Lookup(latestById, pass.id),
                                        Head(pass.todo)))
  /\ sockets' = Broadcast(sockets,
                  IF pass.kind = "fault"
                    THEN <<FaultEvent(Head(pass.todo), pass.id, pass.vin, pass.serial)>>
                    ELSE <<>>)
  /\ pass' = [pass EXCEPT !.todo = Tail(@)]
  /\ lastOp' = Op(pass.kind, "running", pass.id, <<Head(pass.todo)>>, <<>>)
  /\ UNCHANGED <<server, partitionLastId, now, handled>>

\* what a pass emits once its record is stored
ClosingEvents(p, rec) ==
  CASE p.kind = "fault" ->
         <<Event("faultcodes", [id |-> p.id, vin |-> p.vin, codes |-> RawForUi(p.codes)]),
           Event("update", rec)>>
    [] p.kind = "debug/faultcodes" ->
         <<Event("faultcodes", [id |-> p.id, vin |-> p.vin, codes |-> p.raw])>>
         \o FaultEvents(p.codes, p.id, p.vin, Undef)
         \o <<Event("update", rec)>>
    [] OTHER -> <<Event("update", rec)>>

\* latestById.set(id, { ...asset, lastUpdateTs: NOW() }) and the emits after it
PassCompletes ==
  /\ pass.pc = "merging"
  /\ pass.todo = <<>>
  /\ latestById' = Put(latestById, pass.id, Stamp(Lookup(latestById, pass.id), pass.t))
  /\ sockets' = Broadcast(sockets,
                          ClosingEvents(pass, Stamp(Lookup(latestById, pass.id), pass.t)))
  /\ partitionLastId' = IF pass.kind = "location"
                          THEN [partitionLastId EXCEPT ![pass.partition] = pass.id]
                          ELSE partitionLastId
  /\ pass' = Idle(latestById')
  /\ lastOp' = Op(pass.kind, "accepted", pass.id, pass.codes,
                  ClosingEvents(pass, Stamp(Lookup(latestById, pass.id), pass.t)))
  /\ UNCHANGED <<server, now, handled>>

----------------------------------------------------------------------------
(* Subscribers: the connection handler and the client's socket handlers     *)
(* (App.jsx).  A client row has the fields of an asset record; a key the    *)
(* client never received is undefined.                                      *)

NoSocket == [status |-> "idle", inbox |-> <<>>, sent |-> <<>>, rows |-> <<>>]

\* io.on("connection"): part_000 sends the snapshot; index.js registers no handler
Connect(s) ==
  /\ sockets[s].status # "connected"
  /\ LET first == IF server = "legacy" THEN <<Event("snapshot", latestById)>> ELSE <<>>
     IN  sockets' = [sockets EXCEPT ![s] =
           [status |-> "connected", inbox |-> first,
            sent |-> [i \in 1..Len(first) |-> first[i].type], rows |-> @.rows]]
  /\ UNCHANGED <<server, latestById, partitionLastId, now, lastOp, pass>>

\* socket.close(): what was in flight is lost, the rows stay
Disconnect(s) ==
  /\ sockets[s].status = "connected"
  /\ sockets' = [sockets EXCEPT ![s].status = "closed", ![s].inbox = <<>>]
  /\ UNCHANGED <<server, latestById, partitionLastId, now, lastOp, pass>>

\* socket.on("snapshot"): the map is rebuilt from the items
OnSnapshot(rows, items) == items

\* { ...prev, ...item }: a key of item that is present wins
Spread(prev, item) ==
  [k \in DOMAIN prev |-> IF item[k] = Undef THEN prev[k] ELSE item[k]]

NoRow ==
  [id |-> Undef, vin |-> Undef, serial |-> Undef, time |-> Undef, lat |-> Undef,
   lon |-> Undef, heading |-> Undef, city |-> Undef, state |-> Undef, mph |-> Undef,
   faults |-> Undef, lastTopic |-> Undef, lastUpdateTs |-> Undef, milOn |-> Undef]

\* socket.on("update")
OnUpdate(rows, item) ==
  Put(rows, item.id, Spread(IF Has(rows, item.id) THEN Lookup(rows, item.id) ELSE NoRow,
                            item))

\* the client's count of active faults by lower-cased severity
ClientTally(active) ==
  LET sev(f) == ToLowerCase(JsString(OrJ(f.severity, JStr(""))))
      n(x) == Cardinality({i \in 1..Len(active) : sev(active[i]) = x})
  IN  [state |-> "tally", critical |-> JNum(n("critical")),
       warning |-> JNum(n("warning")), info |-> JNum(n("info")),
       unknown |-> JNum(Cardinality({i \in 1..Len(active) :
                                       sev(active[i]) \notin Severities}))]

\* [...history, payload].slice(-600)
CLIENT_HISTORY_CAP == 600

ClientHistory(history, payload) ==
  LET h == Append(history, payload)
  IN  SubSeq(h, Len(h) - Min(Len(h), CLIENT_HISTORY_CAP) + 1, Len(h))

\* active: dedupe by code; a known code is overwritten key by key and gets lastSeen
ClientActive(active, payload) ==
  LET hit == {i \in 1..Len(active) : active[i].code = payload.code}
      idx == IF hit = {} THEN 0 ELSE CHOOSE i \in hit : \A j \in hit : i <= j
  IN  IF Truthy(payload.active)
        THEN IF idx = 0 THEN Append(active, payload)
             ELSE [active EXCEPT
                     ![idx] = [Spread(active[idx], payload) EXCEPT !.lastSeen = payload.time]]
        ELSE IF idx # 0
               THEN SubSeq(active, 1, idx - 1) \o SubSeq(active, idx + 1, Len(active))
               ELSE active

\* socket.on("fault")
OnFault(rows, payload, t) ==
  LET key == OrJ(payload.id, payload.vin)
      row == IF Has(rows, key) THEN Lookup(rows, key)
             ELSE [NoRow EXCEPT !.id = key, !.vin = payload.vin]
      prevFaults == IF row.faults = Undef THEN NewFaults("index") ELSE row.faults
      active == ClientActive(prevFaults.active, payload)
  IN  IF ~Truthy(key) THEN rows
      ELSE Put(rows, key,
               [row EXCEPT !.faults = [active |-> active,
                                       history |-> ClientHistory(prevFaults.history, payload),
                                       counts |-> ClientTally(active)],
                           !.lastUpdateTs = JNum(t)])

\* the rows after the client has handled one event
Apply(rows, ev, t) ==
  CASE ev.type = "snapshot" -> OnSnapshot(rows, ev.payload)
    [] ev.type = "update" -> OnUpdate(rows, ev.payload)
    [] ev.type = "fault" -> OnFault(rows, ev.payload, t)
    [] OTHER -> rows

\* the next event in flight reaches the client of socket s
Deliver(s) ==
  /\ sockets[s].status = "connected"
  /\ sockets[s].inbox # <<>>
  /\ sockets' = [sockets EXCEPT
       ![s].inbox = Tail(@),
       ![s].rows = Apply(@, Head(sockets[s].inbox), now)]
  /\ UNCHANGED <<server, latestById, partitionLastId, now, lastOp, pass>>


----------------------------------------------------------------------------
(* Inputs.                                                                  *)

Pair(k, v) == <<k, v>>

\* { asset: { id, externalIds: { "samsara.vin": vin } } }
Envelope(id, vin) ==
  Pair("asset", JObj(<<Pair("id", JStr(id)),
                       Pair("externalIds", JObj(<<Pair("samsara.vin", JStr(vin))>>))>>))

Item(spn, fmi, mil, desc) ==
  JObj(<<Pair("spnId", JNum(spn)), Pair("fmiId", JNum(fmi)), Pair("milStatus", JNum(mil)),
         Pair("spnDescription", JStr(desc))>>)

LocationPayloads ==
  { \* a full location report of asset a1
    JObj(<<Envelope("a1", "V1"), Pair("happenedAtTime", JNum(2)),
           Pair("location", JObj(<<Pair("latitude", JNum(10)), Pair("longitude", JNum(20)),
                                   Pair("headingDegrees", JNum(90)),
                                   Pair("address", JObj(<<Pair("city", JStr("Reno")),
                                                          Pair("state", JStr("NV"))>>))>>))>>),
    \* a speed-only report of asset a2
    JObj(<<Pair("vehicle", JObj(<<Pair("id", JStr("a2"))>>)),
           Pair("speed", JObj(<<Pair("ecuSpeedMetersPerSecond", JNum(10))>>))>>),
    \* an update of a1 with no field set
    JObj(<<Pair("asset", JObj(<<Pair("id", JStr("a1"))>>))>>),
    \* no identity
    JObj(<<Pair("location", JObj(<<Pair("latitude", JNum(11))>>))>>) }

FaultPayloads ==
  { \* two faults of asset a1 that share a code
    JObj(<<Envelope("a1", "V1"),
           Pair("faults", JArr(<<Item(1327, 11, 1, "Engine Cylinder 5 Misfire Rate"),
                                 Item(1327, 11, 0, "Engine Cylinder 5 Misfire Rate")>>))>>),
    \* one fault, no identity in the payload
    JObj(<<Pair("items", JArr(<<Item(100, 1, 1, "Oil Pressure")>>))>>),
    \* no fault items
    JObj(<<Pair("asset", JObj(<<Pair("id", JStr("a2"))>>))>>) }

LegacyFaultPayloads ==
  { JObj(<<Envelope("a1", "V1"),
           Pair("fault", JObj(<<Pair("code", JStr("P0300")),
                                Pair("severity", JStr("Critical"))>>))>>),
    JObj(<<Envelope("a1", "V1"),
           Pair("fault", JObj(<<Pair("code", JStr("P0300")),
                                Pair("active", JBool(FALSE))>>))>>),
    JObj(<<Pair("vehicle", JObj(<<Pair("id", JStr("a2"))>>)),
           Pair("code", JStr("P0420")), Pair("severity", JStr("minor"))>>),
    JObj(<<Pair("code", JStr("P0420"))>>) }

Partitions == {0, 1}

Message(topic, partition, key, value) ==
  [topic |-> topic, partition |-> partition, key |-> key, headers |-> Undef,
   timestamp |-> JNum(1), value |-> value]

Messages ==
  {Message("vehicle-locations", p, JNull, v) : p \in Partitions, v \in LocationPayloads}
  \cup {Message("vehicle-faults", p, JNull, v) : p \in Partitions, v \in FaultPayloads}
  \cup {Message("vehicle-faults", 0, JStr("a2"), v) : v \in FaultPayloads}

LegacyMessages ==
  {Message("vehicle-locations", 0, JNull, v) : v \in LocationPayloads}
  \cup {Message("vehicle-faults", 0, JNull, v) : v \in LegacyFaultPayloads}

DebugBodies ==
  { JObj(<<>>),
    JObj(<<Pair("id", JStr("a1")), Pair("code", JStr("SPN 100 FMI 1")),
           Pair("severity", JStr("minor"))>>) }

DebugCodeBodies ==
  { JObj(<<>>),
    JObj(<<Pair("id", JStr("a1")),
           Pair("codes", JArr(<<Item(100, 1, 0, "Oil Pressure"),
                                Item(1327, 11, 1, "Engine Cylinder 5 Misfire Rate")>>))>>) }

PushBodies == { JObj(<<>>), JObj(<<Pair("id", JStr("a2"))>>) }

----------------------------------------------------------------------------
(* The system.                                                              *)

\* nothing handled yet
NoMessage == [topic |-> "", partition |-> 0, key |-> Undef, headers |-> Undef,
              timestamp |-> Undef, value |-> Undef]

Init ==
  /\ server \in {"index", "legacy"}
  /\ latestById = <<>>
  /\ partitionLastId = [p \in Partitions |-> Undef]
  /\ now = 0
  /\ sockets = [s \in Sockets |-> NoSocket]
  /\ lastOp = Op("none", "none", Undef, <<>>, <<>>)
  /\ pass = Idle(<<>>)
  /\ handled = NoMessage

\* the server's handlers, over the wide input sets
Consume ==
  /\ \E m \in (IF server = "index" THEN Messages ELSE LegacyMessages) : EachMessage(m)
  /\ UNCHANGED handled
PostDebugPush ==
  /\ \E body \in PushBodies : DebugPush(body, 42)
  /\ UNCHANGED handled
PostDebugFault ==
  /\ \E body \in DebugBodies : DebugFault(body)
  /\ UNCHANGED handled
PostDebugFaultCodes ==
  /\ \E body \in DebugCodeBodies : DebugFaultCodes(body)
  /\ UNCHANGED handled

NextStore ==
  \/ Consume
  \/ PostDebugPush
  \/ PostDebugFault
  \/ PostDebugFaultCodes
  \/ GetState
  \/ GetFaults

SpecStore == Init /\ [][NextStore]_vars

\* the server with subscribers, over a few inputs
CoreMessages ==
  IF server = "index"
    THEN {m \in Messages : m.partition = 0 /\ m.key = JNull}
    ELSE {m \in LegacyMessages : Truthy(extractIdentity(m.value).id)}

Ingest ==
  /\ \E m \in CoreMessages : EachMessage(m)
  /\ UNCHANGED handled
InjectFault ==
  /\ DebugFault(JObj(<<>>))
  /\ UNCHANGED handled
SocketConnect ==
  /\ \E s \in Sockets : Connect(s)
  /\ UNCHANGED handled
SocketDisconnect ==
  /\ \E s \in Sockets : Disconnect(s)
  /\ UNCHANGED handled
SocketDeliver ==
  /\ \E s \in Sockets : Deliver(s)
  /\ UNCHANGED handled

Next ==
  \/ Ingest
  \/ InjectFault
  \/ SocketConnect
  \/ SocketDisconnect
  \/ SocketDeliver

Spec == Init /\ [][Next]_vars

\* index.js with an asset whose history is close to its cap: the state after
\* Backlog single-fault messages for asset a1
Backlog == 598

BacklogFault(i) ==
  normalizeJ1939FaultItem(Item(100 + (i % 3), 1, 0, "Oil Pressure"), JNum(i))

\* handleFaultMerge of the backlog's faults lo..hi in turn.  The range is split in
\* halves, and the first half is looked at before the second is begun, so that the
\* evaluation stays shallow.
RECURSIVE MergeBacklog(_, _, _)
MergeBacklog(asset, lo, hi) ==
  IF lo > hi THEN asset
  ELSE IF lo = hi THEN handleFaultMerge("index", asset, BacklogFault(lo))
  ELSE LET half == MergeBacklog(asset, lo, (lo + hi) \div 2)
       IN  IF Len(half.faults.history) >= 0
             THEN MergeBacklog(half, (lo + hi) \div 2 + 1, hi)
             ELSE half

BacklogAsset ==
  Stamp(MergeBacklog(upsertAssetBase("index", <<>>,
                                     IdentityRecord([id |-> JStr("a1"), vin |-> JStr("V1"),
                                                     serial |-> JNull]),
                                     "vehicle-faults", 0),
                     1, Backlog), 0)

InitHistory ==
  /\ server = "index"
  /\ latestById = <<BacklogAsset>>
  /\ partitionLastId = [p \in Partitions |-> Undef]
  /\ now = 0
  /\ sockets = [s \in Sockets |-> NoSocket]
  /\ lastOp = Op("none", "none", Undef, <<>>, <<>>)
  /\ pass = Idle(<<>>)
  /\ handled = NoMessage

HistoryMessages == {m \in Messages : m.topic = "vehicle-faults" /\ m.partition = 0}

ConsumeFaults ==
  /\ \E m \in HistoryMessages : EachMessage(m)
  /\ UNCHANGED handled

NextHistory ==
  \/ ConsumeFaults
  \/ PostDebugFault
  \/ PostDebugFaultCodes

SpecHistory == InitHistory /\ [][NextHistory]_vars

\* a store of Fleet assets, each created by a /debug/push
Fleet == 199

FleetAsset(srv, i) ==
  Stamp(upsertAssetBase(srv, <<>>, Mock(JStr("v" \o ToString(i)), 42, 0), "debug", 0), 0)

InitState ==
  /\ server \in {"index", "legacy"}
  /\ latestById = [i \in 1..Fleet |-> FleetAsset(server, i)]
  /\ partitionLastId = [p \in Partitions |-> Undef]
  /\ now = 0
  /\ sockets = [s \in Sockets |-> NoSocket]
  /\ lastOp = Op("none", "none", Undef, <<>>, <<>>)
  /\ pass = Idle(<<>>)
  /\ handled = NoMessage

NextState ==
  \/ PostDebugPush
  \/ GetState
  \/ GetFaults
  \/ SocketConnect
  \/ SocketDisconnect
  \/ SocketDeliver

SpecState == InitState /\ [][NextState]_vars

\* index.js with its handlers taken statement by statement
InitSteps == Init /\ server = "index"

StepMessages == {m \in Messages : m.partition = 0}

StepConsume ==
  /\ \E m \in StepMessages : MessageBegins(m)
  /\ UNCHANGED handled
StepInject ==
  /\ \E body \in DebugCodeBodies : CodesBegin(body)
  /\ UNCHANGED handled

NextSteps ==
  \/ StepConsume
  \/ StepInject
  \/ PassMerges
  \/ PassCompletes
  \/ GetState
  \/ GetFaults

SpecSteps == InitSteps /\ [][NextSteps]_vars

----------------------------------------------------------------------------
(* Fault merges: the active list and the history.                           *)

\* the cap of the running server's history
Cap == IF server = "index" THEN HISTORY_CAP ELSE LEGACY_HISTORY_CAP

CodesOf(list) == {list[i].code : i \in 1..Len(list)}

\* the last fault of the list that carries the code c
LastOf(list, c) ==
  list[CHOOSE i \in 1..Len(list) :
         list[i].code = c /\ \A j \in (i + 1)..Len(list) : list[j].code # c]

\* the active list is what the merges recorded in the history leave behind
ActiveReflects(f) ==
  /\ \A i, j \in 1..Len(f.active) : f.active[i].code = f.active[j].code => i = j
  /\ CodesOf(f.active) \subseteq CodesOf(f.history)
  /\ \A c \in CodesOf(f.history) :
       IF Truthy(LastOf(f.history, c).active)
         THEN \E i \in 1..Len(f.active) : f.active[i] = LastOf(f.history, c)
         ELSE c \notin CodesOf(f.active)

\* C1: after any sequence of fault merges (Kafka fault messages, /debug/fault,
\* /debug/faultcodes), faults.active holds at most one entry per code, and the entry
\* of a code is the fault of the last merge of that code if that merge was active;
\* the code is absent if its last merge was not active.  (While the history has not
\* reached its cap it lists every merge, in order.)
C1_ActiveDedup ==
  \A k \in 1..Len(latestById) :
    Len(latestById[k].faults.history) < Cap => ActiveReflects(latestById[k].faults)

\* an asset into which one code was merged twice holds the second merge, once
C1_Witness ==
  \E k \in 1..Len(latestById) :
    LET f == latestById[k].faults
    IN  \E i, j \in 1..Len(f.history) :
          /\ i < j
          /\ f.history[i].code = f.history[j].code
          /\ f.history[i] # f.history[j]
          /\ j = Len(f.history)
          /\ Cardinality({n \in 1..Len(f.active) : f.active[n].code = f.history[j].code}) = 1
          /\ \E n \in 1..Len(f.active) : f.active[n] = f.history[j]

\* an asset whose last merge of a code was a clear no longer lists the code
C1_Cleared ==
  \E k \in 1..Len(latestById) :
    LET f == latestById[k].faults
    IN  /\ Len(f.history) >= 2
        /\ ~Truthy(f.history[Len(f.history)].active)
        /\ f.history[Len(f.history)].code \notin CodesOf(f.active)
        /\ f.history[1].code = f.history[Len(f.history)].code

\* the last n entries of a list
LastN(list, n) == SubSeq(list, Len(list) - Min(Len(list), n) + 1, Len(list))

HistoryOf(store, id) == IF Has(store, id) THEN Lookup(store, id).faults.history ELSE <<>>

\* C2: faults.history never holds more than 600 entries; a handler that merges
\* faults leaves the 600 most recent of (the history before, then its merged faults)
\* in arrival order, the oldest evicted first, and nothing is deduplicated
C2_HistoryBounded ==
  [][lastOp'.outcome = "accepted" =>
       /\ Len(HistoryOf(latestById', lastOp'.id)) <= HISTORY_CAP
       /\ HistoryOf(latestById', lastOp'.id)
            = LastN(HistoryOf(latestById, lastOp'.id) \o lastOp'.merged, HISTORY_CAP)]_vars

\* the history is full, its oldest entries are gone, and the two faults merged
\* last share a code and are both there
C2_Witness ==
  /\ lastOp.outcome = "accepted"
  /\ Len(lastOp.merged) = 2
  /\ lastOp.merged[1].code = lastOp.merged[2].code
  /\ LET h == HistoryOf(latestById, lastOp.id)
     IN  /\ Len(h) = HISTORY_CAP
         /\ h[1].time # JNum(1)
         /\ SubSeq(h, HISTORY_CAP - 1, HISTORY_CAP) = lastOp.merged

----------------------------------------------------------------------------
(* Severity counters and the sparse merge.                                  *)

\* the number of entries of active whose severity, with every value outside
\* critical, warning and info taken for unknown, is s
CountOf(active, s) ==
  Cardinality({i \in 1..Len(active) :
                 (IF active[i].severity \in {JStr(x) : x \in Severities}
                    THEN active[i].severity ELSE JStr("unknown")) = JStr(s)})

\* C3: in every reachable state, for every asset held in the store, whether or not
\* a fault was ever merged into it, faults.counts.critical, .warning, .info and
\* .unknown each equal the number of entries of faults.active with that severity
C3_CountsTally ==
  \A k \in 1..Len(latestById) :
    LET f == latestById[k].faults
    IN  /\ f.counts.critical = JNum(CountOf(f.active, "critical"))
        /\ f.counts.warning = JNum(CountOf(f.active, "warning"))
        /\ f.counts.info = JNum(CountOf(f.active, "info"))
        /\ f.counts.unknown = JNum(CountOf(f.active, "unknown"))

\* the same of the assets into which a fault was merged
C3_CountsAfterMerge ==
  \A k \in 1..Len(latestById) :
    LET f == latestById[k].faults
    IN  f.history # <<>> =>
          /\ f.counts.critical = JNum(CountOf(f.active, "critical"))
          /\ f.counts.warning = JNum(CountOf(f.active, "warning"))
          /\ f.counts.info = JNum(CountOf(f.active, "info"))
          /\ f.counts.unknown = JNum(CountOf(f.active, "unknown"))

SparseFields == {"vin", "serial", "time", "lat", "lon", "heading", "city", "state", "mph"}

\* partial updates: none of the fields set, fields set to null, fields present but
\* falsy, and an asset the store has never seen
PartialRecords ==
  { [EmptyRecord EXCEPT !.id = JStr("a1")],
    [EmptyRecord EXCEPT !.id = JStr("a1"), !.lat = JNull, !.city = JNull, !.vin = JNull],
    [EmptyRecord EXCEPT !.id = JStr("a1"), !.lat = JNum(0), !.lon = JNum(0),
                        !.city = JStr(""), !.heading = JNum(0)],
    [EmptyRecord EXCEPT !.id = JStr("a2"), !.mph = JNum(0), !.time = JNum(7)],
    [EmptyRecord EXCEPT !.id = JStr("a9"), !.lat = JNum(5)] }

Previous(store, record) ==
  IF Has(store, UpsertId(record)) THEN Lookup(store, UpsertId(record)) ELSE EmptyRecord

\* C4: upsert is a sparse merge: each of vin, serial, time, lat, lon, heading, city,
\* state, mph holds the incoming value when the incoming record has the field, and
\* the stored value when the field is absent (null or undefined); with no field set
\* the fields of an existing asset stay, and on first creation absent fields stay empty
C4_SparseMerge ==
  \A record \in PartialRecords :
    \A k \in SparseFields :
      upsertAssetBase(server, latestById, record, "vehicle-locations", now)[k]
        = IF Nullish(record[k]) THEN Previous(latestById, record)[k] ELSE record[k]

\* asset a1 has had a full location report and then an update with no field set
\* (its time is the message's), and still holds its position
C4_Witness ==
  \E k \in 1..Len(latestById) :
    /\ latestById[k].id = JStr("a1")
    /\ latestById[k].time = JNum(1)
    /\ latestById[k].lat = JNum(10)
    /\ latestById[k].city = JStr("Reno")
    /\ lastOp.kind = "location"
    /\ lastOp.outcome = "accepted"

----------------------------------------------------------------------------
(* Subscribers and snapshots.                                               *)

LocationKeys == {"time", "lat", "lon", "heading", "city", "state", "mph"}

\* the subscriber's row of the asset shows the store's location fields and fault lists
SameView(rows, asset) ==
  /\ Has(rows, asset.id)
  /\ \A k \in LocationKeys : Lookup(rows, asset.id)[k] = asset[k]
  /\ Lookup(rows, asset.id).faults = asset.faults

\* C5: a subscriber that connects at any point of the stream and applies the events
\* it receives in order holds, once ingestion has stopped and every emitted event is
\* delivered, a record for every asset of the store whose location fields and fault
\* lists (active, history, counts) equal the store's.  Ingestion may stop in any
\* state, so a connected subscriber with nothing in flight must agree with the store.
C5_Converged ==
  \A s \in Sockets :
    (sockets[s].status = "connected" /\ sockets[s].inbox = <<>>) =>
      \A k \in 1..Len(latestById) : SameView(sockets[s].rows, latestById[k])

\* C6: every new connection is sent exactly one snapshot event, and it is sent
\* before any update or fault event on that connection
C6_OneSnapshotFirst ==
  \A s \in Sockets :
    sockets[s].status = "connected" =>
      /\ Len(sockets[s].sent) >= 1
      /\ sockets[s].sent[1] = "snapshot"
      /\ \A i \in 2..Len(sockets[s].sent) : sockets[s].sent[i] # "snapshot"

\* the list holds one record for every asset of the store
HoldsAll(items, store) ==
  /\ Len(items) = Len(store)
  /\ \A k \in 1..Len(store) : \E i \in 1..Len(items) : items[i] = store[k]

\* C7: a snapshot (the payload of the snapshot event, and the items of the /state
\* read) contains one record for every asset held in the store at the instant of the
\* call, for any number of stored assets
C7_SnapshotComplete ==
  /\ (lastOp.outcome = "read" /\ lastOp.kind = "state") =>
       HoldsAll(lastOp.body.items, latestById)
  /\ \A s \in Sockets :
       (sockets[s].sent = <<"snapshot">> /\ sockets[s].inbox # <<>>) =>
         HoldsAll(sockets[s].inbox[1].payload, latestById)

\* C8: no read observes a record between the steps of one mutation: the body of a
\* /state or /faults read is the body the store gives as the last finished handler
\* left it, never one with an upsert applied and its merges, counts or lastUpdateTs
\* refresh still to come
C8_NoPartialRead ==
  lastOp.outcome = "read" =>
    lastOp.body = (IF lastOp.kind = "state" THEN StateBody(pass.committed)
                   ELSE FaultsBody(pass.committed))

\* a /state read after a handler that merged two faults into an asset
C8_Witness ==
  /\ lastOp.outcome = "read"
  /\ lastOp.kind = "state"
  /\ \E i \in 1..Len(lastOp.body.items) :
       /\ Len(lastOp.body.items[i].faults.history) >= 2
       /\ lastOp.body.items[i].faults.counts.state = "tally"

UpdatesOf(events) == {i \in 1..Len(events) : events[i].type = "update"}

\* C9: every accepted message (location or fault) causes exactly one update event,
\* emitted after the store mutation of the message is complete, whose payload is the
\* store's record of that id; a dropped message causes no update event
C9_OneUpdate ==
  lastOp.kind \in {"location", "fault"} =>
    /\ lastOp.outcome = "accepted" =>
         /\ Cardinality(UpdatesOf(lastOp.events)) = 1
         /\ \A i \in UpdatesOf(lastOp.events) :
              lastOp.events[i].payload = Lookup(latestById, lastOp.id)
    /\ lastOp.outcome # "accepted" => UpdatesOf(lastOp.events) = {}

\* a fault message that merged two faults was accepted
C9_Witness ==
  /\ lastOp.kind = "fault"
  /\ lastOp.outcome = "accepted"
  /\ Len(lastOp.merged) = 2
  /\ Len(Lookup(latestById, lastOp.id).faults.history) >= 2

FaultsAmong(events) == {i \in 1..Len(events) : events[i].type = "fault"}

\* the i-th fault event of the list
NthFault(events, n) ==
  events[CHOOSE i \in FaultsAmong(events) :
           Cardinality({j \in FaultsAmong(events) : j <= i}) = n]

\* the event carries the fault's own fields and the asset's identity
Carries(payload, f, asset) ==
  /\ payload.code = f.code
  /\ payload.description = f.description
  /\ payload.severity = f.severity
  /\ payload.active = f.active
  /\ payload.time = f.time
  /\ payload.id = asset.id
  /\ payload.vin = asset.vin
  /\ payload.serial = asset.serial

\* C10: an accepted fault-topic message that normalizes to k faults causes exactly k
\* fault events, one per fault in merge order, each carrying the fault's code,
\* description, severity, active and time with the asset's id, vin and serial, and
\* all k are emitted before the message's update event
C10_FaultEvents ==
  (lastOp.kind = "fault" /\ lastOp.outcome = "accepted") =>
    /\ Cardinality(FaultsAmong(lastOp.events)) = Len(lastOp.merged)
    /\ \A n \in 1..Len(lastOp.merged) :
         Carries(NthFault(lastOp.events, n).payload, lastOp.merged[n],
                 Lookup(latestById, lastOp.id))
    /\ \A i \in FaultsAmong(lastOp.events) :
         \A j \in UpdatesOf(lastOp.events) : i < j

\* the same, of index.js alone
C10_FaultEventsIndex == server = "index" => C10_FaultEvents

----------------------------------------------------------------------------
(* The consumer of index.js over messages that differ in where their        *)
(* identity comes from and in the shape of their value.                     *)

Keyed(m, key) == [m EXCEPT !.key = JStr(key)]
WithHeaders(m, headers) == [m EXCEPT !.headers = JObj(headers)]

OneFault == JArr(<<Item(100, 1, 1, "Oil Pressure")>>)

\* fault reports that carry one fault and no identity in the value
Unidentified == {Message("vehicle-faults", p, JNull, JObj(<<Pair("items", OneFault)>>)) :
                   p \in Partitions}

\* the same report with a message key, with headers
KeyedFault == Keyed(Message("vehicle-faults", 0, JNull, JObj(<<Pair("items", OneFault)>>)),
                    "abc123")
HeaderFault ==
  WithHeaders(Message("vehicle-faults", 0, JNull, JObj(<<Pair("items", OneFault)>>)),
              <<Pair("vehicleId", JStr("h1")), Pair("vin", JStr("V9"))>>)

\* an identity at several places at once
Contested ==
  { Keyed(Message("vehicle-faults", 0, JNull,
                  JObj(<<Envelope("a1", "V1"), Pair("id", JStr("a3")),
                         Pair("faults", OneFault)>>)), "abc123"),
    Keyed(Message("vehicle-faults", 0, JNull,
                  JObj(<<Pair("vehicleId", JStr("a2")), Pair("items", OneFault)>>)),
          "abc123"),
    WithHeaders(Keyed(Message("vehicle-faults", 1, JNull,
                              JObj(<<Pair("items", OneFault)>>)), "abc123"),
                <<Pair("id", JStr("h1"))>>),
    \* a location report with its id at the top level and in the key
    Keyed(Message("vehicle-locations", 0, JNull,
                  JObj(<<Pair("id", JStr("a3")),
                         Pair("location", JObj(<<Pair("latitude", JNum(12))>>))>>)), "a3") }

\* fault reports with an identity and no fault item
NoItems ==
  { Message("vehicle-faults", 0, JNull, JObj(<<Pair("asset", JObj(<<Pair("id", JStr("a2"))>>))>>)),
    Keyed(Message("vehicle-faults", 0, JNull,
                  JObj(<<Envelope("a1", "V1"), Pair("faults", JArr(<<>>))>>)), "abc123") }

\* raw values that are empty or not JSON, on both topics
Unparsable ==
  {Message("vehicle-locations", 0, JNull, Invalid), Message("vehicle-faults", 1, JNull, Invalid)}
  \cup {WithHeaders(Keyed(Message(topic, 0, JNull, Invalid), "abc123"),
                    <<Pair("id", JStr("h1")), Pair("vin", JStr("V9"))>>) :
          topic \in {"vehicle-locations", "vehicle-faults"}}

\* values that are scalars, or containers of nulls and scalars
Shapes ==
  { JNum(5), JArr(<<JNull>>),
    JObj(<<Pair("data", JArr(<<JNull>>))>>),
    JObj(<<Pair("data", JArr(<<JNum(5)>>))>>) }

Shaped ==
  {Message("vehicle-faults", 0, JNull, v) : v \in Shapes}
  \cup {Message("vehicle-locations", 0, JNull, v) : v \in {JNum(5), JArr(<<JNull>>)}}

\* the reports that populate the store and the partition cache
Located ==
  {m \in Messages : /\ ~IsFaultTopic("index", m.topic)
                    /\ m.partition = 0
                    /\ extractIdentity(m.value).id # JNull
                    /\ extractIdentity(m.value) # [NoIdentity EXCEPT !.id = JStr("a1")]}

IdentityMessages ==
  Located \cup Unidentified \cup {KeyedFault, HeaderFault} \cup Contested \cup NoItems
  \cup Unparsable \cup Shaped

InitIdentity == Init /\ server = "index"
\* the consumer, with the message it was given kept in handled
ConsumeIdentity == \E m \in IdentityMessages : EachMessage(m) /\ handled' = m
\* a debug injector between messages
InjectIdentity == DebugFault(JObj(<<>>)) /\ handled' = NoMessage

NextIdentity ==
  \/ ConsumeIdentity
  \/ InjectIdentity

\* the step is the consumer handling the message handled'
Handles == now' # now /\ handled' # NoMessage

\* the step changes no asset, no fault list and no cache entry, and emits nothing
LeavesNoTrace ==
  /\ lastOp'.events = <<>>
  /\ UNCHANGED <<latestById, partitionLastId, sockets>>

\* the id the path of message m settles on, falsy when none does
SettledId(m, store, lastIds) ==
  IF IsFaultTopic("index", m.topic)
    THEN SingletonFallback(ResolvedId(resolveIdentityFromObj(Decoded("index", m)), m, lastIds),
                           Undef, Undef, store).id
    ELSE normalizeLocation(Decoded("index", m), MessageTs(m, 0)).id
SpecIdentity == InitIdentity /\ [][NextIdentity]_vars

----------------------------------------------------------------------------
(* Payload shapes and identity resolution of the consumer.                  *)

\* C12: no message stops the processing loop: whatever the shape of its payload,
\* containers of nulls and scalars included, a handled message ends accepted or
\* dropped and the handler does not raise
C12_NeverRaises ==
  lastOp.kind \in {"location", "fault"} => lastOp.outcome \in {"accepted", "dropped"}

RECURSIVE FirstPresent(_)
\* the first candidate that is present, in the order given
FirstPresent(candidates) ==
  IF candidates = <<>> THEN Undef
  ELSE IF Truthy(Head(candidates)) THEN Head(candidates)
  ELSE FirstPresent(Tail(candidates))

\* the precedence chain as stated: envelope id, flat id, message key, header,
\* partition cache, the sole asset of the store
PrimaryId(m, store, lastIds) ==
  FirstPresent(<<Get2(m.value, "asset", "id"), Get2(m.value, "vehicle", "id"),
                 Get(m.value, "id"), Get(m.value, "vehicleId"), Get(m.value, "assetId"),
                 m.key, HdrId(m), HdrVin(m), lastIds[m.partition],
                 IF Len(store) = 1 THEN store[1].id ELSE Undef>>)

\* the message has something to store once its id is known
Storable(m) ==
  /\ IsObject(m.value)
  /\ lastOp'.outcome # "threw"
  /\ IsFaultTopic("index", m.topic) => Len(normalizeFaultPayload(m.value, JNum(1)).a) > 0

\* C13: the primary id of a message is the first present of envelope id, flat id,
\* message key, header, partition cache and (store of one asset) the sole asset; a
\* message whose chain yields an id is stored under that id
C13_Precedence ==
  [][(Handles /\ Storable(handled')
      /\ Truthy(PrimaryId(handled', latestById, partitionLastId)))
       => (lastOp'.outcome = "accepted"
           /\ lastOp'.id = PrimaryId(handled', latestById, partitionLastId))]_vars

\* the chain is the one the fault path follows
C13_PrecedenceFaultPath ==
  [][(Handles /\ IsFaultTopic("index", handled'.topic) /\ Storable(handled')
      /\ Truthy(PrimaryId(handled', latestById, partitionLastId)))
       => (lastOp'.outcome = "accepted"
           /\ lastOp'.id = PrimaryId(handled', latestById, partitionLastId))]_vars

\* C14: a fault message with no envelope identity, key "abc123" and no headers,
\* arriving at a store of zero or of more than one asset, is dropped: no asset is
\* created or changed and no event is emitted
C14_KeyedDropped ==
  [][(Handles /\ handled' = KeyedFault /\ Len(latestById) # 1)
       => (lastOp'.outcome = "dropped" /\ LeavesNoTrace)]_vars

\* C15: a fault message whose id no payload field, key, header or cache entry gives
\* is merged into the sole asset when the store holds exactly one, and no asset is
\* created; with zero or with two or more assets it is dropped
C15_Singleton ==
  [][(Handles /\ handled' \in Unidentified
      /\ ~Truthy(partitionLastId[handled'.partition]))
       => IF Len(latestById) = 1
            THEN /\ lastOp'.outcome = "accepted"
                 /\ lastOp'.id = latestById[1].id
                 /\ Len(latestById') = 1
                 /\ latestById'[1].id = latestById[1].id
                 /\ latestById'[1].faults.history
                      = latestById[1].faults.history \o lastOp'.merged
                 /\ Len(lastOp'.merged) = 1
            ELSE lastOp'.outcome = "dropped" /\ LeavesNoTrace]_vars

\* an unidentified fault went to the only asset of the store, the cache of its
\* partition being empty
C15_Witness ==
  /\ handled \in Unidentified
  /\ ~Truthy(partitionLastId[handled.partition])
  /\ lastOp.outcome = "accepted"
  /\ Len(latestById) = 1
  /\ Len(latestById[1].faults.history) >= 1

Itemless(m) ==
  /\ IsFaultTopic("index", m.topic)
  /\ normalizeFaultPayload(Decoded("index", m), MessageTs(m, 0)) = JArr(<<>>)

\* C17: a fault message that yields zero fault items is dropped even when its
\* identity resolves: no asset is created, none is changed (lastTopic and
\* lastUpdateTs included) and no event is emitted
C17_ItemlessDropped ==
  [][(Handles /\ Itemless(handled'))
       => (lastOp'.outcome = "dropped" /\ LeavesNoTrace)]_vars

\* a fault message with an identity and no item was dropped, its asset being in the
\* store
C17_Witness ==
  /\ handled \in NoItems
  /\ Truthy(SettledId(handled, latestById, partitionLastId))
  /\ Has(latestById, SettledId(handled, latestById, partitionLastId))
  /\ lastOp.outcome = "dropped"

\* C18: a raw value that is empty or not JSON is handled as the empty object and the
\* message is dropped on both paths, whatever its key, headers and partition: store
\* and cache unchanged, no event
C18_UnparsableDropped ==
  [][(Handles /\ handled'.value = Invalid)
       => (/\ Decoded("index", handled') = JObj(<<>>)
           /\ lastOp'.outcome = "dropped"
           /\ LeavesNoTrace)]_vars

\* an unparsable message that carries a key and headers was dropped at a store that
\* is not empty
C18_Witness ==
  /\ handled.value = Invalid
  /\ Truthy(handled.key) /\ Truthy(handled.headers)
  /\ lastOp.outcome = "dropped"
  /\ Len(latestById) >= 1

\* C19: the partition cache is written by accepted location messages only, which set
\* the entry of their partition to their asset id; fault messages, dropped messages
\* and debug injectors leave it unchanged; a fault message that takes its id from the
\* cache is merged into the asset of the last accepted location message of its
\* partition
C19_PartitionCache ==
  [][(now' # now) =>
       /\ IF Handles /\ lastOp'.kind = "location" /\ lastOp'.outcome = "accepted"
            THEN partitionLastId'
                   = [partitionLastId EXCEPT ![handled'.partition] = lastOp'.id]
            ELSE UNCHANGED partitionLastId
       /\ (Handles /\ handled' \in Unidentified
           /\ Truthy(partitionLastId[handled'.partition]))
            => (/\ lastOp'.outcome = "accepted"
                /\ lastOp'.id = partitionLastId[handled'.partition]
                /\ HistoryOf(latestById', lastOp'.id)
                     = HistoryOf(latestById, lastOp'.id) \o lastOp'.merged)]_vars

\* an unidentified fault went to the asset cached for its partition, the store
\* holding another asset as well
C19_Witness ==
  /\ handled \in Unidentified
  /\ lastOp.outcome = "accepted"
  /\ Truthy(partitionLastId[handled.partition])
  /\ lastOp.id = partitionLastId[handled.partition]
  /\ Len(latestById) >= 2

----------------------------------------------------------------------------
(* Severity of a normalized fault.                                          *)

\* raw fault items over the misfire set, the lamp and the two descriptions
SeverityItems ==
  {JObj(<<Pair("spnId", JNum(spn)), Pair("fmiId", JNum(11)), Pair("milStatus", JNum(mil)),
          Pair("spnDescription", JStr(spnD)), Pair("fmiDescription", fmiD)>>) :
     spn \in {100, 1327}, mil \in {0, 1}, spnD \in {"Oil", "Cyl MisFire"},
     fmiD \in {Undef, JStr("Misfire")}}

\* a fault report of asset a1 with one item
ConsumeSeverity ==
  /\ \E item \in SeverityItems :
       EachMessage(Message("vehicle-faults", 0, JNull,
                           JObj(<<Envelope("a1", "V1"), Pair("faults", JArr(<<item>>))>>)))
  /\ UNCHANGED handled

InitSeverity == Init /\ server = "index"
NextSeverity == ConsumeSeverity
SpecSeverity == InitSeverity /\ [][NextSeverity]_vars

\* the two-stage escalation over the lamp, the parameter identifier and a text
Escalation(milStatus, spn, text) ==
  IF milStatus # JNum(1) THEN "info"
  ELSE IF spn.t = "num" /\ spn.n \in {1322, 1327, 1328} THEN "critical"
  ELSE IF Includes(ToLowerCase(text), "misfire") THEN "critical"
  ELSE "warning"

\* every fault recorded in a history of the store has the severity that the
\* escalation gives for its lamp, its parameter identifier and Text(f)
Escalated(Text(_)) ==
  \A i \in 1..Len(latestById) :
    \A k \in 1..Len(latestById[i].faults.history) :
      LET f == latestById[i].faults.history[k]
      IN  f.severity = JStr(Escalation(ToNumber(Get(f.meta, "milStatus")),
                                       ToNumber(Get(f.meta, "spn")), Text(f)))

FaultText(f) == f.description.s
SpnText(f) == Get(f.meta, "spnDescription").s

\* C20: the severity of a normalized fault is info when the lamp is not on, warning
\* when the lamp is on and the fault is not a misfire, critical when the lamp is on
\* and the fault is a misfire: its parameter identifier in {1322, 1327, 1328} or its
\* description containing "misfire" in any letter case
C20_Severity == Escalated(FaultText)

\* the escalation as the code applies it: the text searched is spnDescription alone
C20_SeverityBySpnDescription == Escalated(SpnText)

----------------------------------------------------------------------------
(* Order of the events a subscriber receives.                               *)

\* one location report and one fault report of the same asset, with a subscriber
OrderMessages ==
  {m \in Messages : /\ m.partition = 0 /\ m.key = JNull
                    /\ extractIdentity(m.value).id = JStr("a1")
                    /\ Truthy(extractIdentity(m.value).vin)}

InitOrder == Init /\ server = "index"
IngestOrder ==
  /\ \E m \in OrderMessages : EachMessage(m)
  /\ UNCHANGED handled

NextOrder ==
  \/ IngestOrder
  \/ SocketConnect
  \/ SocketDeliver

SpecOrder == InitOrder /\ [][NextOrder]_vars

\* C11: every subscriber receives events in the order in which the mutations were
\* applied: the events of a handler (a mutation) go behind everything emitted by the
\* handlers before it, whole and in emit order, and the subscriber takes events from
\* the front only
C11_InOrder ==
  [][\A s \in Sockets :
       (sockets[s].status = "connected" /\ sockets'[s].status = "connected") =>
         IF now' # now
           THEN sockets'[s].inbox = sockets[s].inbox \o lastOp'.events
           ELSE sockets'[s].inbox = Tail(sockets[s].inbox)]_vars

\* a subscriber has the update events of two mutations in flight, the earlier first
C11_Witness ==
  \E s \in Sockets :
    \E i, j \in 1..Len(sockets[s].inbox) :
      /\ i < j
      /\ sockets[s].inbox[i].type = "update"
      /\ sockets[s].inbox[j].type = "update"
      /\ sockets[s].inbox[i].payload.lastUpdateTs.n < sockets[s].inbox[j].payload.lastUpdateTs.n
      /\ sockets[s].inbox[j].payload = Lookup(latestById, sockets[s].inbox[j].payload.id)

----------------------------------------------------------------------------
(* Faults as normalized and merged, and the life of a store entry.          *)

\* C21: every fault the fault normalizer of the ingestion path produces has
\* active = true, whatever the payload shape and the raw item
C21_AlwaysActive ==
  lastOp.kind = "fault" =>
    \A i \in 1..Len(lastOp.merged) : lastOp.merged[i].active = JBool(TRUE)

\* the same for normalizeJ1939FaultItem of index.js alone
C21_AlwaysActiveIndex == server = "index" => C21_AlwaysActive

\* index.js: every fault the handler merged has the id, code and timestamp of a fault
\* already in the history of its asset
Remerges ==
  /\ server = "index"
  /\ lastOp'.outcome = "accepted"
  /\ lastOp'.merged # <<>>
  /\ Has(latestById, lastOp'.id)
  /\ \A i \in 1..Len(lastOp'.merged) :
       \E k \in 1..Len(HistoryOf(latestById, lastOp'.id)) :
         /\ HistoryOf(latestById, lastOp'.id)[k].id = lastOp'.merged[i].id
         /\ HistoryOf(latestById, lastOp'.id)[k].code = lastOp'.merged[i].code
         /\ HistoryOf(latestById, lastOp'.id)[k].time = lastOp'.merged[i].time

\* C22: re-merging a fault whose id collides with an already merged one (same code,
\* same timestamp) is a no-op: active, history and counts of the asset after the
\* second merge equal those after the first
C22_RemergeNoOp ==
  [][Remerges => Lookup(latestById', lastOp'.id).faults
                   = Lookup(latestById, lastOp'.id).faults]_vars

\* re-merging faults that are in the history field by field, in a batch of one,
\* leaves the active list and the counts as they were
C22_RemergeKeepsActive ==
  [][(/\ Remerges
      /\ Len(lastOp'.merged) = 1
      /\ LastOf(Lookup(latestById, lastOp'.id).faults.history, lastOp'.merged[1].code)
           = lastOp'.merged[1]) =>
       /\ Lookup(latestById', lastOp'.id).faults.active
            = Lookup(latestById, lastOp'.id).faults.active
       /\ Lookup(latestById', lastOp'.id).faults.counts
            = Lookup(latestById, lastOp'.id).faults.counts]_vars

\* C23: an asset state is created by the first accepted message for its id and is
\* never destroyed: the ids of the store only grow, a new id is the one of the
\* handler that was accepted, and a dropped message creates no entry
C23_NeverDestroyed ==
  [][/\ \A i \in 1..Len(latestById) : Has(latestById', latestById[i].id)
     /\ \A j \in 1..Len(latestById') :
          ~Has(latestById, latestById'[j].id) =>
            (lastOp'.outcome = "accepted" /\ lastOp'.id = latestById'[j].id)
     /\ lastOp'.outcome \in {"dropped", "threw"} => Len(latestById') = Len(latestById)]_vars

\* two assets created at different times are in the store and the message handled
\* last was dropped
C23_Witness ==
  /\ Len(latestById) >= 2
  /\ latestById[1].lastUpdateTs # latestById[2].lastUpdateTs
  /\ lastOp.outcome = "dropped"

----------------------------------------------------------------------------
(* Keys of the store, backfilled ids and routing, over both servers, the    *)
(* consumer and the debug injectors.                                        *)

OnlyVin == JObj(<<Pair("externalIds", JObj(<<Pair("samsara.vin", JStr("V5"))>>))>>)
OnlySerial == JObj(<<Pair("externalIds", JObj(<<Pair("samsara.serial", JStr("S5"))>>))>>)
Position == Pair("location", JObj(<<Pair("latitude", JNum(12))>>))

\* reports that carry a vin or a serial and no id
Backfillable ==
  { Message("vehicle-locations", 0, JNull, JObj(<<Pair("asset", OnlyVin), Position>>)),
    Message("vehicle-locations", 0, JNull, JObj(<<Pair("vehicle", OnlySerial), Position>>)),
    Message("vehicle-faults", 0, JNull, JObj(<<Pair("asset", OnlyVin), Pair("items", OneFault)>>)) }

\* a fault report of a1 in the shape of either server, under two spellings of the topic
Spelled ==
  {Message(topic, 0, JNull,
           JObj(<<Envelope("a1", "V1"), Pair("faults", OneFault),
                  Pair("fault", JObj(<<Pair("code", JStr("P0300"))>>))>>)) :
     topic \in {"vehicle-faults", "Vehicle-FAULTS"}}

KeysMessages ==
  Backfillable \cup Spelled
  \cup {m \in LegacyMessages : /\ m.topic = "vehicle-locations"
                               /\ Truthy(extractIdentity(m.value).vin)}

KeysBodies ==
  { JObj(<<>>), JObj(<<Pair("vin", JStr("V7"))>>),
    JObj(<<Pair("id", JStr("a1")), Pair("vin", JStr("V1"))>>) }

ConsumeKeys == \E m \in KeysMessages : EachMessage(m) /\ handled' = m
InjectKeys == (\E body \in KeysBodies : DebugFault(body)) /\ handled' = NoMessage
PushKeys == DebugPush(JObj(<<>>), 42) /\ handled' = NoMessage

NextKeys ==
  \/ ConsumeKeys
  \/ InjectKeys
  \/ PushKeys

SpecKeys == Init /\ [][NextKeys]_vars

NonEmptyId(id) == Truthy(id) /\ id # JStr("")

\* C24: every entry of the store has a non-empty id, which is the key it is stored
\* under: no two entries share an id, and the key a handler stored under is the id
\* of an entry, after Kafka messages and debug injectors alike
C24_KeyedById ==
  /\ \A i \in 1..Len(latestById) : NonEmptyId(latestById[i].id)
  /\ \A i, j \in 1..Len(latestById) : latestById[i].id = latestById[j].id => i = j
  /\ lastOp.outcome = "accepted" => (NonEmptyId(lastOp.id) /\ Has(latestById, lastOp.id))

\* /debug/fault stored an asset whose vin differs from its id, next to another
\* entry
C24_Witness ==
  /\ lastOp.kind = "debug/fault"
  /\ lastOp.id = JStr("a1")
  /\ Lookup(latestById, JStr("a1")).vin = JStr("V1")
  /\ Len(latestById) >= 2

\* the vin of the payload of m, else its serial
BackfillId(m) ==
  OrJ(resolveIdentityFromObj(m.value).vin, resolveIdentityFromObj(m.value).serial)

\* C25: a message that carries a vin or a serial and no id is accepted and stored
\* under that vin (or serial): the primary id is backfilled from vin, else serial
C25_Backfilled ==
  [][(Handles /\ server = "index" /\ handled' \in Backfillable)
       => (/\ lastOp'.outcome = "accepted"
           /\ lastOp'.id = BackfillId(handled')
           /\ Has(latestById', BackfillId(handled')))]_vars

\* C27: a message is routed by its topic name alone: it takes the fault path
\* exactly when the name contains "fault" in any letter case, the location path
\* otherwise, whatever its payload
C27_RoutedByTopic ==
  handled # NoMessage =>
    (lastOp.kind = IF Includes(ToLowerCase(handled.topic), "fault")
                     THEN "fault" ELSE "location")

\* the same for index.js alone
C27_RoutedByTopicIndex == server = "index" => C27_RoutedByTopic

\* the message handled carries no vin, in its payload or in a header
Vinless(m) == ~Truthy(resolveIdentityFromObj(m.value).vin) /\ ~Truthy(HdrVin(m))

\* C26: after an accepted fault-topic message the vin of the owning asset is not
\* empty and its events carry that vin; when neither the payload nor a header
\* supplies a vin and the id came from the key, a header or the partition cache, the
\* vin is the primary id
C26_VinNeverEmpty ==
  (server = "index" /\ lastOp.kind = "fault" /\ lastOp.outcome = "accepted") =>
     /\ NonEmptyId(Lookup(latestById, lastOp.id).vin)
     /\ \A i \in 1..Len(lastOp.events) : NonEmptyId(lastOp.events[i].payload.vin)
     /\ \A i \in 1..Len(lastOp.events) :
          lastOp.events[i].payload.vin = Lookup(latestById, lastOp.id).vin
     /\ (/\ handled # NoMessage
         /\ Vinless(handled)
         /\ Truthy(ResolvedId(resolveIdentityFromObj(handled.value), handled, partitionLastId)))
          => Lookup(latestById, lastOp.id).vin = lastOp.id

\* a fault message with a key and no vin was accepted
C26_Witness ==
  /\ lastOp.kind = "fault" /\ lastOp.outcome = "accepted"
  /\ handled # NoMessage /\ Vinless(handled) /\ Truthy(handled.key)
  /\ Lookup(latestById, lastOp.id).vin = lastOp.id
  /\ Len(lastOp.events) >= 3

\* the number of active faults over the assets of the store
RECURSIVE ActiveTotal(_)
ActiveTotal(store) ==
  IF store = <<>> THEN 0
  ELSE Len(store[Len(store)].faults.active) + ActiveTotal(SubSeq(store, 1, Len(store) - 1))

\* the entry of the flattened list for the k-th active fault of the a-th asset
EntryOf(items, store, a, k) == items[ActiveTotal(SubSeq(store, 1, a - 1)) + k]

\* the entry is the fault, with the location of the asset
CarriesContext(e, asset, f) ==
  /\ e.code = f.code /\ e.time = f.time /\ e.severity = f.severity
  /\ e.serial = asset.serial
  /\ e.city = asset.city /\ e.state = asset.state
  /\ e.lat = asset.lat /\ e.lon = asset.lon

\* the entry names the asset
CarriesIdentity(e, asset) == e.id = asset.id /\ e.vin = asset.vin

\* one entry per asset and active fault, in store order, each fit by Fits
Flattened(Fits(_, _, _)) ==
  (server = "index" /\ lastOp.kind = "faults" /\ lastOp.outcome = "read") =>
     /\ lastOp.body.size = ActiveTotal(latestById)
     /\ Len(lastOp.body.items) = ActiveTotal(latestById)
     /\ \A a \in 1..Len(latestById) :
          \A k \in 1..Len(latestById[a].faults.active) :
            Fits(EntryOf(lastOp.body.items, latestById, a, k), latestById[a],
                 latestById[a].faults.active[k])

CarriesAll(e, asset, f) == CarriesContext(e, asset, f) /\ CarriesIdentity(e, asset)

\* C28: the list of GET /faults has one entry per asset and active fault, its count
\* is the sum of the assets' active faults, and every entry carries the id, vin and
\* serial of the owning asset and its city, state, lat and lon
C28_Flattened == Flattened(CarriesAll)

\* the same without the id and the vin: the count, the pairing, the serial and the
\* location
C28_FlattenedContext == Flattened(CarriesContext)

----------------------------------------------------------------------------
(* The shape of a fault payload: which of its containers normalizeFaultPayload *)
(* reads, over payloads that hold several at once.                          *)

\* the fault held by the k-th container, told apart by its SPN
ShapeItem(k) == Item(k, 1, 1, "Oil Pressure")

\* the k-th container: faults, items, j1939, the payload itself, a nested array
ShapePairs(k) ==
  CASE k = 1 -> <<Pair("faults", JArr(<<ShapeItem(1)>>))>>
    [] k = 2 -> <<Pair("items", JArr(<<ShapeItem(2)>>))>>
    [] k = 3 -> <<Pair("j1939", JArr(<<ShapeItem(3)>>))>>
    [] k = 4 -> ShapeItem(4).o
    [] OTHER -> <<Pair("data", JObj(<<Pair("list", JArr(<<ShapeItem(5)>>))>>))>>

\* the payload with the containers of S, written in the given order
RECURSIVE LayoutPairs(_, _)
LayoutPairs(S, order) ==
  IF order = <<>> THEN <<>>
  ELSE (IF Head(order) \in S THEN ShapePairs(Head(order)) ELSE <<>>)
       \o LayoutPairs(S, Tail(order))

LayoutSets == {S \in SUBSET (1..5) : Cardinality(S) \in {0, 1, 2, 5}}

Layouts ==
  {JObj(LayoutPairs(S, order)) : S \in LayoutSets, order \in {<<1, 2, 3, 4, 5>>, <<5, 4, 3, 2, 1>>}}
  \cup {JObj(<<Pair("faults", JObj(<<Pair("spnId", JNum(1))>>)), Pair("items", JArr(<<ShapeItem(2)>>))>>)}

LayoutMessages == {Keyed(Message("vehicle-faults", 0, JNull, v), "a1") : v \in Layouts}

ConsumeLayouts == \E m \in LayoutMessages : EachMessage(m) /\ handled' = m

SpecLayouts == InitIdentity /\ [][ConsumeLayouts]_vars

\* the payload holds the k-th container
Present(v, k) ==
  CASE k = 1 -> IsArray(Get(v, "faults"))
    [] k = 2 -> IsArray(Get(v, "items"))
    [] k = 3 -> IsArray(Get(v, "j1939"))
    [] k = 4 -> ~Nullish(Get(v, "spnId")) \/ ~Nullish(Get(v, "fmiId"))
    [] OTHER -> Get(v, "data") # Undef

\* the earliest container the payload holds, 0 when it holds none
EarliestShape(v) ==
  IF \E k \in 1..5 : Present(v, k)
    THEN CHOOSE k \in 1..5 : Present(v, k) /\ \A j \in 1..(k - 1) : ~Present(v, j)
    ELSE 0

\* C29: the shapes of a fault payload are tried in a fixed order and the first match
\* wins: faults, then items, then j1939, then a fault object at the top level, then
\* the nested search; a payload that matches several yields the faults of the
\* earliest one only
C29_FirstShapeWins ==
  (server = "index" /\ handled \in LayoutMessages) =>
     IF EarliestShape(handled.value) = 0
       THEN lastOp.outcome = "dropped"
       ELSE /\ lastOp.outcome = "accepted"
            /\ Len(lastOp.merged) = 1
            /\ lastOp.merged[1]
                 = normalizeJ1939FaultItem(ShapeItem(EarliestShape(handled.value)),
                                           lastOp.merged[1].time)

\* a payload with all five containers gave the fault of faults alone
C29_Witness ==
  /\ handled \in LayoutMessages
  /\ \A k \in 1..5 : Present(handled.value, k)
  /\ lastOp.outcome = "accepted"
  /\ Len(lastOp.merged) = 1
  /\ lastOp.merged[1].code = JStr("SPN 1 FMI 1")

----------------------------------------------------------------------------
(* The nested search of deepFindSpnArray, over payloads with arrays at       *)
(* several depths and in several branches.                                   *)

MaxLevel == 7

\* v below l objects
RECURSIVE Nest(_, _)
Nest(l, v) == IF l = 0 THEN v ELSE JObj(<<Pair("n", Nest(l - 1, v))>>)

Faults(spn) == JArr(<<Item(spn, 1, 1, "Oil Pressure")>>)

\* one array of faults, l levels below the root
Deep == {Nest(l, Faults(10 + l)) : l \in 1..MaxLevel}

Branches ==
  { \* too deep in the first branch, within reach in the second
    JObj(<<Pair("a", Nest(5, Faults(20))), Pair("b", Faults(21))>>),
    \* deeper in the first branch than in the second
    JObj(<<Pair("a", Nest(2, Faults(22))), Pair("b", Faults(23))>>),
    \* an array of other objects, then one told by its fmiId alone
    JObj(<<Pair("a", JArr(<<JObj(<<Pair("x", JNum(1))>>)>>)),
           Pair("b", JArr(<<JObj(<<Pair("fmiId", JNum(2))>>)>>))>>),
    \* an array in an array, an array in an element of an array
    JObj(<<Pair("a", JArr(<<Faults(24)>>))>>),
    JObj(<<Pair("a", JArr(<<JObj(<<Pair("x", Faults(25))>>)>>))>>),
    \* scalars before the array
    JObj(<<Pair("a", JNum(5)), Pair("b", JStr("x")), Pair("c", Faults(26))>>),
    \* an array that starts with null before the array of faults
    JObj(<<Pair("a", JArr(<<JNull>>)), Pair("b", Faults(27))>>) }

NestedMessages == {Keyed(Message("vehicle-faults", 0, JNull, v), "a1") : v \in Deep \cup Branches}

ConsumeNested == \E m \in NestedMessages : EachMessage(m) /\ handled' = m

SpecNested == InitIdentity /\ [][ConsumeNested]_vars

\* the first element of the array v has an spnId or an fmiId
Qualifies(v) ==
  /\ IsArray(v) /\ Len(v.a) > 0
  /\ IsObject(At(v, 0))
  /\ ~Nullish(Get(At(v, 0), "spnId")) \/ ~Nullish(Get(At(v, 0), "fmiId"))

\* the paths of at most d keys from v, a path being the positions of its keys
RECURSIVE PathsFrom(_, _)
PathsFrom(v, d) ==
  {<<>>} \cup
  IF d = 0 \/ ~IsObject(v) THEN {}
  ELSE UNION {{<<i>> \o p : p \in PathsFrom(Values(v)[i], d - 1)} : i \in 1..Len(Values(v))}

RECURSIVE Follow(_, _)
Follow(v, p) == IF p = <<>> THEN v ELSE Follow(Values(v)[Head(p)], Tail(p))

\* p is visited before q by a depth-first walk in key order
Before(p, q) ==
  \/ Len(p) < Len(q) /\ SubSeq(q, 1, Len(p)) = p
  \/ \E i \in 1..Len(p) : /\ i <= Len(q)
                          /\ p[i] < q[i]
                          /\ SubSeq(p, 1, i - 1) = SubSeq(q, 1, i - 1)

\* the arrays of faults at most MAX_DEPTH levels below the root
Within(root) == {p \in PathsFrom(root, MAX_DEPTH) : Qualifies(Follow(root, p))}

FirstWithin(root) ==
  Follow(root, CHOOSE p \in Within(root) : \A q \in Within(root) \ {p} : Before(p, q))

\* the faults merged are those of the array arr
MergedFrom(arr) ==
  /\ lastOp.outcome = "accepted"
  /\ Len(lastOp.merged) = Len(arr.a)
  /\ \A i \in 1..Len(arr.a) :
       lastOp.merged[i] = normalizeJ1939FaultItem(arr.a[i], lastOp.merged[i].time)

Searched(m) ==
  IF Within(m.value) = {} THEN lastOp.outcome = "dropped"
  ELSE MergedFrom(FirstWithin(m.value))

\* C30: the nested search ends on every payload and reaches five levels below the
\* root: it returns the first array, depth first in key order, whose first element
\* has an spnId or an fmiId and that lies at most five levels down, and no array when
\* each lies deeper
C30_NestedSearch ==
  (server = "index" /\ handled \in NestedMessages) => Searched(handled)

\* no array of the value starts with null
RECURSIVE NullFree(_)
NullFree(v) ==
  /\ IsArray(v) /\ Len(v.a) > 0 => At(v, 0) # JNull
  /\ \A i \in 1..Len(Values(v)) : NullFree(Values(v)[i])

\* the same over the payloads none of whose arrays starts with null
C30_BoundedDepth ==
  (server = "index" /\ handled \in NestedMessages /\ NullFree(handled.value))
    => Searched(handled)

\* an array five levels down was found, one six levels down was not
C30_FoundAtFive ==
  /\ handled.value = Nest(5, Faults(15))
  /\ lastOp.outcome = "accepted"

----------------------------------------------------------------------------
(* What an operation changes of a record, and what it leaves alone.         *)

\* the entry of the asset the step stored, after and before the step
StoredAfter == Lookup(latestById', lastOp'.id)
StoredBefore == Lookup(latestById, lastOp'.id)
KnownBefore == Has(latestById, lastOp'.id)

\* a step of a handler that stored an asset
Stores == now' # now /\ lastOp'.outcome = "accepted"

\* C31: every accepted location message, fault message and debug injection stamps
\* its asset with the clock at processing time, not with the time of the event, so
\* with a clock that never goes back the lastUpdateTs of an asset never decreases
C31_StampedByClock ==
  [][/\ Stores => StoredAfter.lastUpdateTs = JNum(now')
     /\ \A i \in 1..Len(latestById) :
          Lookup(latestById', latestById[i].id).lastUpdateTs.n
            >= latestById[i].lastUpdateTs.n]_vars

\* a location report was stored whose event time is older than the clock, for an
\* asset stamped before
C31_Witness ==
  /\ lastOp.kind = "location" /\ lastOp.outcome = "accepted"
  /\ Lookup(latestById, lastOp.id).time.n < now
  /\ Lookup(latestById, lastOp.id).lastUpdateTs = JNum(now)
  /\ now >= 2
  /\ Len(Lookup(latestById, lastOp.id).faults.history) >= 1

\* the codes of the active faults of asset
ActiveCodes(asset) == {asset.faults.active[k].code : k \in 1..Len(asset.faults.active)}

\* C32: in index.js no operation presents a fault with active = false, so the set of
\* codes in faults.active of an asset never shrinks, under Kafka messages and debug
\* injections alike
C32_ActiveNeverShrinks ==
  [][server = "index" =>
       /\ \A k \in 1..Len(lastOp'.merged) : Truthy(lastOp'.merged[k].active)
       /\ \A i \in 1..Len(latestById) :
            ActiveCodes(latestById[i])
              \subseteq ActiveCodes(Lookup(latestById', latestById[i].id))]_vars

\* a code that was active was merged again, next to another active code
C32_Witness ==
  /\ server = "index"
  /\ lastOp.outcome = "accepted"
  /\ lastOp.merged # <<>>
  /\ Cardinality(ActiveCodes(Lookup(latestById, lastOp.id))) >= 2
  /\ Len(Lookup(latestById, lastOp.id).faults.history)
       > Len(Lookup(latestById, lastOp.id).faults.active) + 1

\* time, lat, lon, heading, city, state and mph of a record
LocationOf(asset) ==
  <<asset.time, asset.lat, asset.lon, asset.heading, asset.city, asset.state, asset.mph>>

\* C33: an accepted fault-topic message leaves the location fields of its asset
\* (time, lat, lon, heading, city, state, mph) as they were before the message
C33_FaultKeepsLocation ==
  [][(Stores /\ server = "index" /\ lastOp'.kind = "fault") =>
       LocationOf(StoredAfter)
         = LocationOf(IF KnownBefore THEN StoredBefore ELSE EmptyRecord)]_vars

\* a fault message was merged into an asset that has a position
C33_Witness ==
  /\ server = "index"
  /\ lastOp.kind = "fault" /\ lastOp.outcome = "accepted"
  /\ Lookup(latestById, lastOp.id).lat = JNum(10)
  /\ Lookup(latestById, lastOp.id).city = JStr("Reno")
  /\ Lookup(latestById, lastOp.id).time = JNum(2)

\* C34: an accepted location message leaves the fault snapshot of its asset
\* (faults.active, faults.history, faults.counts) as it was before the message, and
\* emits no fault event
C34_LocationKeepsFaults ==
  [][(Stores /\ server = "index" /\ lastOp'.kind = "location") =>
       /\ StoredAfter.faults = IF KnownBefore THEN StoredBefore.faults ELSE NewFaults("index")
       /\ \A i \in 1..Len(lastOp'.events) : lastOp'.events[i].type = "update"
       /\ lastOp'.merged = <<>>]_vars

\* a location report was stored for an asset that has faults
C34_Witness ==
  /\ server = "index"
  /\ lastOp.kind = "location" /\ lastOp.outcome = "accepted"
  /\ Len(Lookup(latestById, lastOp.id).faults.active) >= 1
  /\ Len(Lookup(latestById, lastOp.id).faults.history) >= 2

\* C35: an accepted message or debug injection changes the entry of one id, the
\* resolved one: the record of every other asset, its fault lists included, is as it
\* was before
C35_OthersUnchanged ==
  [][(now' # now /\ server = "index") =>
       \A i \in 1..Len(latestById) :
         (lastOp'.outcome # "accepted" \/ latestById[i].id # lastOp'.id)
           => Lookup(latestById', latestById[i].id) = latestById[i]]_vars

\* faults were merged into one asset while another asset holds faults of its own
C35_Witness ==
  /\ server = "index"
  /\ lastOp.outcome = "accepted" /\ lastOp.merged # <<>>
  /\ \E i \in 1..Len(latestById) :
       /\ latestById[i].id # lastOp.id
       /\ latestById[i].faults.history # <<>>
       /\ latestById[i].faults.history # Lookup(latestById, lastOp.id).faults.history

\* C36: every id held in the cache of last ids per partition is the id of an asset of
\* the store, so a fault message resolved through the cache never creates an asset
C36_CacheInStore ==
  server = "index" =>
    \A p \in Partitions : Truthy(partitionLastId[p]) => Has(latestById, partitionLastId[p])

\* both partitions have a last id, of two assets
C36_Witness ==
  /\ server = "index"
  /\ Truthy(partitionLastId[0]) /\ Truthy(partitionLastId[1])
  /\ partitionLastId[0] # partitionLastId[1]
  /\ lastOp.kind = "fault" /\ lastOp.outcome = "accepted"

\* the message carries no serial
Serialless(m) == ~Truthy(resolveIdentityFromObj(Decoded("index", m)).serial)

\* the vin and the serial the asset had are kept under a message that has none
KeepsKnown ==
  /\ (Vinless(handled') /\ Truthy(StoredBefore.vin)) => StoredAfter.vin = StoredBefore.vin
  /\ (Serialless(handled') /\ Truthy(StoredBefore.serial))
       => StoredAfter.serial = StoredBefore.serial

\* C37: once the vin or the serial of an asset is known, an accepted message that
\* carries none of its own does not change it; a fault-topic message without a vin
\* does not replace a known vin by the primary id
C37_KnownVinKept ==
  [][(Handles /\ Stores /\ KnownBefore) => KeepsKnown]_vars

\* the same for the messages of the location path alone
C37_LocationKeepsVin ==
  [][(Handles /\ Stores /\ KnownBefore /\ lastOp'.kind = "location") => KeepsKnown]_vars

\* the time of the record is a number not below n
NotBefore(asset, n) == asset.time.t = "num" /\ asset.time.n >= n.n

\* C38: the stored state is monotonic in event time: the location time of an asset
\* never moves backwards, a location message whose event time is older than the
\* stored one leaving the stored time and position as they were
C38_TimeNeverBack ==
  [][server = "index" =>
       \A i \in 1..Len(latestById) :
         latestById[i].time.t = "num"
           => NotBefore(Lookup(latestById', latestById[i].id), latestById[i].time)]_vars

====
